---- MODULE Spec2Model ----
(***************************************************************************)
(* The feature-extraction pipeline of soundbits: extractor/                *)
(* file_feature_extractor.py (class Song, librosa backend) and extractor/  *)
(* torch_audio_extractor.py (class SongTorchaudio, torchaudio backend).    *)
(*                                                                         *)
(* One analysis run is one object under construction: the stages of        *)
(* _extract_features are the actions, the attributes they assign are the   *)
(* variables.  Calls into librosa, numpy, scipy, scikit-learn and          *)
(* torchaudio are modelled by what the call returns for the argument it    *)
(* gets; where the value depends on the audio itself it is drawn from a    *)
(* small set of outputs the call can produce.                              *)
(*                                                                         *)
(* Numbers: a real is a fraction [num, den] in lowest terms; 0/0 is NaN.   *)
(* np.std is carried as the variance it is the square root of (root = 2).  *)
(* Frequencies are in units of 0.01 Hz.  Array indices are numpy's         *)
(* (0-based); element i of an array a is a[i + 1] of the sequence.         *)
(***************************************************************************)
EXTENDS Integers, Sequences, FiniteSets, TLC

(* ------------------------------ bounds -------------------------------- *)

\* Longest track of the model, in analysis frames.
MaxFrames == 9

\* Most tempo candidates the beat tracker returns at once.
MaxCands == 2

(* ------------------------- program constants -------------------------- *)

\* n_segments = 8, the target cluster count of both extractors.
n_segments == 8

\* librosa.load(file_path, sr=22050): Song resamples every file to this rate.
LoadSr == 22050

\* n_fft=2048, hop_length=512, n_mels=128: the defaults of SongTorchaudio,
\* which are also librosa's own defaults used by Song.
DefaultNFft == 2048
DefaultHop == 512
DefaultNMels == 128

\* n_mfcc=13 of the torchaudio MFCC transform; librosa.feature.mfcc gives 20;
\* chroma has 12 pitch classes.
TorchNMfcc == 13

\* width=5 of librosa.segment.recurrence_matrix.
RecWidth == 5

(* ----------------------------- numerics ------------------------------- *)

Min(a, b) == IF a < b THEN a ELSE b
Max(a, b) == IF a > b THEN a ELSE b
Abs(a) == IF a < 0 THEN -a ELSE a

RECURSIVE Gcd(_, _)
Gcd(a, b) == IF b = 0 THEN a ELSE Gcd(b, a % b)

NaN == [num |-> 0, den |-> 0, root |-> 1]

\* The real n/d, in lowest terms; division by zero is NaN (0/0) as in numpy,
\* which warns and goes on.
Frac(n, d) ==
  IF d = 0 THEN NaN
  ELSE LET g == Gcd(Abs(n), Abs(d))
       IN  [num |-> n \div g, den |-> d \div g, root |-> 1]

IsNaN(x) == x.den = 0

\* x < y and x <= y for two reals of root 1 with positive denominators.
Less(x, y) == x.num * y.den < y.num * x.den
Leq(x, y) == x.num * y.den <= y.num * x.den

RECURSIVE SeqSum(_)
SeqSum(s) == IF s = <<>> THEN 0 ELSE Head(s) + SeqSum(Tail(s))

RECURSIVE SeqSumSq(_)
SeqSumSq(s) == IF s = <<>> THEN 0 ELSE Head(s) * Head(s) + SeqSumSq(Tail(s))

\* np.mean of an array of numbers: the sum over the count, NaN when empty.
NpMean(s) == Frac(SeqSum(s), Len(s))

\* np.std of an array: the root of the mean squared deviation, held as the
\* variance (n * sum(x^2) - sum(x)^2) / n^2 under root 2; NaN when empty.
NpStd(s) ==
  LET n == Len(s)
      v == Frac(n * SeqSumSq(s) - SeqSum(s) * SeqSum(s), n * n)
  IN  [num |-> v.num, den |-> v.den, root |-> IF n = 0 THEN 1 ELSE 2]

\* np.where(np.diff(labels))[0]: the indices i (0-based) of the non-zero
\* entries of diff, diff[i] = labels[i+1] - labels[i], in increasing order.
RECURSIVE WhereFrom(_, _)
WhereFrom(d, i) ==
  IF i > Len(d) THEN <<>>
  ELSE IF d[i] # 0 THEN <<i - 1>> \o WhereFrom(d, i + 1)
  ELSE WhereFrom(d, i + 1)

NpDiff(a) == [i \in 1..(IF Len(a) = 0 THEN 0 ELSE Len(a) - 1) |-> a[i + 1] - a[i]]

NpWhereDiff(labels) == WhereFrom(NpDiff(labels), 1)

\* frames_to_time called without hop_length=: librosa's default hop.
FramesToTimeDefaultHop(frames, sr, hop) ==
  [i \in 1..Len(frames) |-> Frac(frames[i] * DefaultHop, sr)]

\* librosa.frames_to_time(frames, sr, hop_length): frame * hop_length / sr.
FramesToTime(frames, sr, hop) ==
  [i \in 1..Len(frames) |-> Frac(frames[i] * hop, sr)]

\* Frames of a centred short-time transform over n samples: 1 + n // hop.
FrameCount(n, hop) == 1 + (n \div hop)

(* --------------------- mel bins and band energy ----------------------- *)

\* librosa.mel_frequencies(n_mels, fmin=0, fmax=sr/2): n_mels centre
\* frequencies evenly spaced on the Slaney mel scale (linear below 1 kHz,
\* logarithmic above), here in units of 0.01 Hz, for the bin counts and
\* sample rates of the model.
Mel128At11025 ==
  <<
     0, 2620, 5240, 7860, 10480, 13100, 15720, 18340,
     20960, 23580, 26200, 28820, 31440, 34060, 36680, 39300,
     41920, 44540, 47160, 49780, 52400, 55020, 57640, 60260,
     62879, 65499, 68119, 70739, 73359, 75979, 78599, 81219,
     83839, 86459, 89079, 91699, 94319, 96939, 99559, 102273,
     105074, 107951, 110908, 113946, 117066, 120272, 123566, 126951,
     130427, 133999, 137669, 141440, 145313, 149293, 153382, 157583,
     161899, 166333, 170888, 175568, 180377, 185317, 190392, 195606,
     200964, 206468, 212122, 217932, 223900, 230032, 236332, 242805,
     249455, 256287, 263306, 270517, 277926, 285538, 293358, 301392,
     309647, 318127, 326840, 335791, 344988, 354436, 364143, 374116,
     384362, 394889, 405704, 416815, 428231, 439959, 452009, 464388,
     477106, 490173, 503598, 517390, 531560, 546118, 561075, 576442,
     592229, 608449, 625113, 642233, 659822, 677893, 696459, 715533,
     735130, 755263, 775948, 797199, 819033, 841464, 864510, 888187,
     912512, 937503, 963179, 989558, 1016660, 1044504, 1073110, 1102500
  >>

Mel128At22050 ==
  <<
     0, 3149, 6298, 9448, 12597, 15746, 18895, 22044,
     25194, 28343, 31492, 34641, 37791, 40940, 44089, 47238,
     50387, 53537, 56686, 59835, 62984, 66133, 69283, 72432,
     75581, 78730, 81879, 85029, 88178, 91327, 94476, 97626,
     100802, 104130, 107567, 111118, 114786, 118575, 122489, 126533,
     130709, 135024, 139481, 144086, 148842, 153755, 158831, 164074,
     169490, 175085, 180864, 186835, 193002, 199373, 205955, 212753,
     219776, 227031, 234525, 242267, 250265, 258526, 267060, 275875,
     284982, 294390, 304107, 314146, 324516, 335228, 346294, 357726,
     369534, 381733, 394334, 407351, 420797, 434688, 449037, 463860,
     479172, 494990, 511329, 528209, 545645, 563657, 582263, 601484,
     621339, 641849, 663037, 684924, 707533, 730889, 755016, 779939,
     805685, 832281, 859755, 888136, 917453, 947739, 979024, 1011341,
     1044726, 1079213, 1114838, 1151639, 1189655, 1228925, 1269492, 1311399,
     1354688, 1399407, 1445601, 1493321, 1542616, 1593538, 1646141, 1700481,
     1756614, 1814600, 1874500, 1936378, 2000298, 2066328, 2134538, 2205000
  >>

Mel8At11025 ==
  <<
     0, 47534, 95068, 155168, 253336, 413610, 675281, 1102500
  >>

Mel8At22050 ==
  <<
     0, 57136, 115856, 208841, 376456, 678598, 1223237, 2205000
  >>

MelFrequencies(n_mels, sr) ==
  CASE n_mels = 128 /\ sr = 22050 -> Mel128At11025
    [] n_mels = 128 /\ sr = 44100 -> Mel128At22050
    [] n_mels = 8 /\ sr = 22050 -> Mel8At11025
    [] n_mels = 8 /\ sr = 44100 -> Mel8At22050

\* The same scan with the higher index winning a tie.
RECURSIVE ArgMinInLastWins(_, _, _, _)
ArgMinInLastWins(freqs, x, lo, hi) ==
  IF lo = hi THEN lo
  ELSE LET mid == (lo + hi) \div 2
           a == ArgMinInLastWins(freqs, x, lo, mid)
           b == ArgMinInLastWins(freqs, x, mid + 1, hi)
       IN  IF Abs(freqs[b] - x) <= Abs(freqs[a] - x) THEN b ELSE a

\* np.argmin(np.abs(freqs - hz)): the 0-based index of the first entry of
\* freqs nearest to hz (hz in Hz, freqs in 0.01 Hz).  The scan is split in
\* halves; on a tie the lower index wins, as in numpy.
RECURSIVE ArgMinIn(_, _, _, _)
ArgMinIn(freqs, x, lo, hi) ==
  IF lo = hi THEN lo
  ELSE LET mid == (lo + hi) \div 2
           a == ArgMinIn(freqs, x, lo, mid)
           b == ArgMinIn(freqs, x, mid + 1, hi)
       IN  IF Abs(freqs[b] - x) < Abs(freqs[a] - x) THEN b ELSE a

\* The boundary given in 0.01 Hz (a boundary need not be a whole number of
\* Hz), and in Hz.
NpArgMinAbsAt(freqs, x) == ArgMinIn(freqs, x, 1, Len(freqs)) - 1

NpArgMinAbs(freqs, hz) == NpArgMinAbsAt(freqs, 100 * hz)

\* A mel spectrogram [n_mels, frames, pat]: the power of bin b at frame t
\* (both 0-based).  Silence is all zero; otherwise every bin holds power,
\* the same everywhere ("flat") or varying with bin and frame ("ramp").
MelAt(m, b, t) ==
  CASE m.pat = "zero" -> 0
    [] m.pat = "flat" -> 1
    [] m.pat = "ramp" -> 1 + ((b + 2 * t) % 3)

\* The sum of the rows lo..hi-1 of frame t, split in halves.
RECURSIVE BinSum(_, _, _, _)
BinSum(m, lo, hi, t) ==
  IF lo >= hi THEN 0
  ELSE IF hi = lo + 1 THEN MelAt(m, lo, t)
  ELSE LET mid == (lo + hi) \div 2
       IN  BinSum(m, lo, mid, t) + BinSum(m, mid, hi, t)

\* np.sum(melspec[start:stop, :], axis=0): per frame, the sum of the rows
\* start..stop-1; an empty slice sums to 0 in every frame.
NpSumRows(m, start, stop) ==
  [t \in 1..m.frames |-> BinSum(m, Max(start, 0), Min(stop, m.n_mels), t - 1)]

\* _get_spectral_band_energy(melspec, (low_hz, high_hz)) with the locals it
\* computes: start_band, end_band and the returned band_energy.
GetSpectralBandEnergy(m, range, sr) ==
  LET freqs == MelFrequencies(m.n_mels, sr)
      start_band == NpArgMinAbs(freqs, range[1])
      end_band == NpArgMinAbs(freqs, range[2])
  IN  [start_band |-> start_band,
       end_band |-> end_band,
       band_energy |-> NpSumRows(m, start_band, end_band + 1)]

BassHz == <<20, 250>>
MidHz == <<250, 4000>>
TrebleHz == <<4000, 20000>>

(* ------------------------ what the libraries return ------------------- *)

\* The 0-based frame indices lo, lo + step, ... below n, in increasing order.
RECURSIVE FramesFrom(_, _, _)
FramesFrom(lo, step, n) ==
  IF lo >= n THEN <<>> ELSE <<lo>> \o FramesFrom(lo + step, step, n)

\* librosa.feature.rms / the RMS transform: one non-negative value per
\* frame, all zero for silence.
RmsFrames(w, frames) ==
  [t \in 1..frames |-> IF w.shape = "silent" THEN 0 ELSE 1 + 2 * (t % 2)]

\* librosa.beat.beat_track: (tempo, beat_frames).  An all-zero onset
\* envelope returns the scalar 0.0 and no beats.  Otherwise tempo is one
\* value or an array of candidates, and the beats are increasing frame
\* indices of the envelope, possibly none (a lone beat is trimmed away).
TempoCandidates ==
  {[i \in 1..k |-> 90 + 31 * (i - 1)] : k \in 1..MaxCands}

BeatTrack(w, frames) ==
  IF w.shape = "silent"
  THEN {[tempo |-> <<0>>, beat_frames |-> <<>>]}
  ELSE {[tempo |-> c, beat_frames |-> b] :
          c \in TempoCandidates, b \in {<<>>, FramesFrom(0, 1, frames)}}

\* librosa.onset.onset_detect: increasing frame indices of the peaks of the
\* onset envelope; none for an all-zero envelope.
OnsetDetect(w, frames) ==
  IF w.shape = "silent" THEN {<<>>}
  ELSE {<<>>, FramesFrom(1, 2, frames)}

\* Columns of a descriptor matrix (MFCC or chroma), one number standing for
\* each frame's coefficient vector: equal in every frame for silence and
\* for a steady tone, different from frame to frame otherwise.
DescriptorColumns(w, frames, base) ==
  [t \in 1..frames |-> IF w.shape = "varying" THEN base + t ELSE base]

\* Frame counts chroma_cqt can return beside an MFCC of f frames: the same,
\* or one fewer where the transform's edge policy drops the last frame.
ChromaFrameCounts(f) == {f} \cup (IF f > 1 THEN {f - 1} ELSE {})

\* The labellings AgglomerativeClustering(n_clusters = k) returns for
\* n >= k samples: every sample gets one label of 0..k-1 and every label
\* is used.  Generated as the restricted growth strings of length n with
\* k blocks, under each renumbering of the labels in LabelPerms(k).
RECURSIVE Growth(_, _, _)
Growth(j, n, k) ==
  IF j = 1 THEN {[s |-> <<0>>, m |-> 0]}
  ELSE LET prev == Growth(j - 1, n, k)
           ext(p) == {[s |-> Append(p.s, l), m |-> Max(p.m, l)] :
                        l \in 0..Min(p.m + 1, k - 1)}
       IN  {q \in UNION {ext(p) : p \in prev} : k - 1 - q.m <= n - j}

LabelPerms(k) ==
  {[l \in 0..(k - 1) |-> l], [l \in 0..(k - 1) |-> k - 1 - l]}

Labellings(n, k) ==
  {[i \in 1..n |-> p[q.s[i]]] : q \in Growth(n, n, k), p \in LabelPerms(k)}

Distinct(s) == {s[i] : i \in 1..Len(s)}

\* scipy pdist + squareform over the columns of the stacked matrix: the
\* pairwise distances, here squared (zero exactly where two columns agree).
SquareForm(cols) ==
  [i \in 1..Len(cols), j \in 1..Len(cols) |->
     (cols[i][1] - cols[j][1]) * (cols[i][1] - cols[j][1])
     + (cols[i][2] - cols[j][2]) * (cols[i][2] - cols[j][2])]

NpMax(mat, n) ==
  LET vals == {mat[i, j] : i \in 1..n, j \in 1..n}
  IN  CHOOSE v \in vals : \A u \in vals : u <= v

AllColumnsEqual(cols) == \A i, j \in 1..Len(cols) : cols[i] = cols[j]

(* ------------------------------- state -------------------------------- *)

VARIABLES
  kind,               \* "Song" or "SongTorchaudio"
  cfg,                \* [n_fft, hop_length, n_mels]
  wave,               \* the loaded mono signal: [n, sr, shape]
  pc,                 \* the stage of _extract_features about to run
  err,                \* the exception that left the constructor, or "none"
  raised_in,          \* the stage that raised it, or "none"
  assigned,           \* the attributes of self assigned so far
  duration, rms_energy, tempo, beats, onsets,
  y_harmonic, y_percussive, melspec,
  bass_energy, mid_energy, treble_energy,
  segment_boundaries, segment_labels, feature_vector,
  tempo_est, beat_frames,      \* locals: what beat_track returned
  band_bins,                   \* locals of the band helper, per band
  mfccs, chroma, stacked_features, R,
  labels, boundaries,          \* locals: fit_predict's result, np.where's
  reported_segments,           \* the segment count summarize printed, or -1
  ret,                         \* what a direct call of the band helper returned
  freq_range_hz,               \* the range of that call, in 0.01 Hz
  plot_saved,                  \* plot_features has drawn and closed its figure
  playlists,          \* Spotify: the playlists, by id: [name, owner, items,
                      \* followed]
  saved_tracks,       \* Spotify: the user's Liked Songs, a list of items
  saved_albums,       \* Spotify: the user's saved albums, each a list of tracks
  now,                \* Spotify: the time it stamps added items with
  requests,           \* the modifying requests the last call has sent; for
                      \* list_songs, the pages it has fetched
  result,             \* what the last SpotifyAPI call returned or raised
  last_call,          \* the last SpotifyAPI call: its name and arguments
  calls,              \* the number of SpotifyAPI calls made
  script,             \* the locals of the script that is using the client
  runs                \* two analyses side by side: per run its class, its
                      \* stage, and for each attribute of its object and
                      \* local of its call the tracks the value came from

attrs ==
  <<duration, rms_energy, tempo, beats, onsets, y_harmonic, y_percussive,
    melspec, bass_energy, mid_energy, treble_energy, segment_boundaries,
    segment_labels, feature_vector>>

locals ==
  <<tempo_est, beat_frames, band_bins, mfccs, chroma, stacked_features, R,
    labels, boundaries>>

\* What no stage of _extract_features touches.
client ==
  <<playlists, saved_tracks, saved_albums, now, requests, result, last_call,
    calls, script>>

other == <<freq_range_hz, plot_saved, client, runs>>

vars ==
  <<kind, cfg, wave, pc, err, raised_in, assigned, attrs, locals,
    reported_segments, ret, other>>

input == <<kind, cfg, wave>>

Zero == Frac(0, 1)
NoMatrix == [rows |-> 0, cols |-> <<>>]
NoMel == [n_mels |-> 0, frames |-> 0, pat |-> "zero"]
NoBand == [start_band |-> 0, end_band |-> 0, band_energy |-> <<>>]

\* Frames of this run's centred transforms.
Frames == FrameCount(wave.n, cfg.hop_length)

\* The configurations of the model.  Song takes none: it runs on librosa's
\* defaults.  SongTorchaudio takes n_fft, hop_length and n_mels.
SongConfig ==
  [n_fft |-> DefaultNFft, hop_length |-> DefaultHop, n_mels |-> DefaultNMels]

TorchConfigs ==
  {SongConfig, [n_fft |-> 1024, hop_length |-> 256, n_mels |-> 8]}

\* Sample counts: for every frame count up to MaxFrames, a signal ending on
\* a hop and one ending 100 samples later; never an empty signal.
SampleCounts(hop) ==
  {hop * (f - 1) + r : f \in 1..MaxFrames, r \in {0, 100}} \ {0}

Shapes == {"silent", "steady", "varying"}

\* No SpotifyAPI object exists.
ClientUnset ==
  /\ playlists = <<>> /\ saved_tracks = <<>> /\ saved_albums = <<>> /\ now = 0
  /\ script = [name |-> "none"]
  /\ requests = <<>> /\ result = "none"
  /\ last_call = [op |-> "none"]
  /\ calls = 0

OtherUnset ==
  /\ freq_range_hz = <<0, 0>>
  /\ plot_saved = FALSE
  /\ ClientUnset
  /\ runs = <<>>

ExtractorUnset ==
  /\ err = "none" /\ raised_in = "none"
  /\ assigned = {}
  /\ duration = Zero /\ rms_energy = Zero /\ tempo = Zero
  /\ beats = <<>> /\ onsets = <<>>
  /\ y_harmonic = 0 /\ y_percussive = 0
  /\ melspec = NoMel
  /\ bass_energy = <<>> /\ mid_energy = <<>> /\ treble_energy = <<>>
  /\ segment_boundaries = <<>> /\ segment_labels = <<>>
  /\ feature_vector = <<>>
  /\ tempo_est = <<>> /\ beat_frames = <<>>
  /\ band_bins = [b \in {} |-> <<0, 0>>]
  /\ mfccs = NoMatrix /\ chroma = NoMatrix /\ stacked_features = NoMatrix
  /\ R = [n |-> 0, nan |-> FALSE]
  /\ labels = <<>> /\ boundaries = <<>>
  /\ reported_segments = -1
  /\ ret = NoBand

Unset == ExtractorUnset /\ OtherUnset

\* __init__ up to the call of _extract_features: the file is loaded (Song
\* at 22050 Hz, SongTorchaudio at the file's own rate) and mixed to mono.
Init ==
  /\ \/ /\ kind = "Song"
        /\ cfg = SongConfig
        /\ \E n \in SampleCounts(DefaultHop), s \in Shapes :
             wave = [n |-> n, sr |-> LoadSr, shape |-> s]
     \/ /\ kind = "SongTorchaudio"
        /\ cfg \in TorchConfigs
        /\ \E n \in SampleCounts(cfg.hop_length), sr \in {22050, 44100}, s \in Shapes :
             wave = [n |-> n, sr |-> sr, shape |-> s]
  /\ pc = "duration"
  /\ Unset

\* The exception caught inside the constructor, which then returns the
\* object as it is.
RaiseCaught(e) ==
  /\ err' = e
  /\ raised_in' = pc
  /\ pc' = "done"

\* An exception raised by the running stage: nothing in _extract_features
\* or __init__ catches it, so the run ends there.
Raise(e) ==
  /\ err' = e
  /\ raised_in' = pc
  /\ pc' = "failed"

NoRaise == UNCHANGED <<err, raised_in>>

(* ------------------------ _extract_features --------------------------- *)

a_rhythm == <<tempo, beats, onsets>>
a_hpss == <<y_harmonic, y_percussive>>
a_bands == <<bass_energy, mid_energy, treble_energy>>
a_seg == <<segment_boundaries, segment_labels>>
l_beat == <<tempo_est, beat_frames>>
l_desc == <<mfccs, chroma, stacked_features, R>>
l_seg == <<labels, boundaries>>
after == <<reported_segments, ret, other>>

\* 1. self.duration: the sample count over the sample rate.
Duration ==
  /\ pc = "duration"
  /\ duration' = Frac(wave.n, wave.sr)
  /\ assigned' = assigned \cup {"duration"}
  /\ pc' = "rms"
  /\ UNCHANGED <<input, err, raised_in, rms_energy, a_rhythm, a_hpss, melspec, a_bands,
                 a_seg, feature_vector, l_beat, band_bins, l_desc, l_seg, after>>

\* 1. self.rms_energy: the mean of the per-frame RMS.  SongTorchaudio asks
\* torchaudio.transforms for an RMS transform, a name torchaudio may not
\* have: the attribute lookup then raises.
RmsEnergy ==
  /\ pc = "rms"
  /\ \/ /\ rms_energy' = NpMean(RmsFrames(wave, Frames))
        /\ assigned' = assigned \cup {"rms_energy"}
        /\ pc' = "beat"
        /\ NoRaise
     \/ /\ kind = "SongTorchaudio"
        /\ Raise("AttributeError")
        /\ UNCHANGED <<rms_energy, assigned>>
  /\ UNCHANGED <<input, duration, a_rhythm, a_hpss, melspec, a_bands,
                 a_seg, feature_vector, l_beat, band_bins, l_desc, l_seg, after>>

\* tempo[0]: the first candidate alone.
TempoFirst(t) == Frac(t[1], 1)

\* self.tempo = np.mean(tempo): one value whether beat_track returned a
\* scalar or an array.
TempoScalar(t) == NpMean(t)

\* 2. tempo, beat_frames = beat_track(...); self.tempo = np.mean(tempo);
\* self.beats = frames_to_time(beat_frames).
BeatTrackStage ==
  /\ pc = "beat"
  /\ \E r \in BeatTrack(wave, Frames) :
       /\ tempo_est' = r.tempo
       /\ beat_frames' = r.beat_frames
       /\ tempo' = TempoScalar(r.tempo)
       /\ beats' = FramesToTime(r.beat_frames, wave.sr, cfg.hop_length)
  /\ assigned' = assigned \cup {"tempo", "beats"}
  /\ pc' = "onset"
  /\ UNCHANGED <<input, err, raised_in, duration, rms_energy, onsets, a_hpss, melspec,
                 a_bands, a_seg, feature_vector, band_bins, l_desc, l_seg, after>>

\* 2. self.onsets = onset_detect(..., units='time').
OnsetStage ==
  /\ pc = "onset"
  /\ \E f \in OnsetDetect(wave, Frames) :
       onsets' = FramesToTime(f, wave.sr, cfg.hop_length)
  /\ assigned' = assigned \cup {"onsets"}
  /\ pc' = "hpss"
  /\ UNCHANGED <<input, err, raised_in, duration, rms_energy, tempo, beats, a_hpss,
                 melspec, a_bands, a_seg, feature_vector, l_beat, band_bins,
                 l_desc, l_seg, after>>

\* 3. self.y_harmonic, self.y_percussive = hpss(y): two signals of the
\* length of the input (held by their lengths).
Hpss ==
  /\ pc = "hpss"
  /\ y_harmonic' = wave.n
  /\ y_percussive' = wave.n
  /\ assigned' = assigned \cup {"y_harmonic", "y_percussive"}
  /\ pc' = "melspec"
  /\ UNCHANGED <<input, err, raised_in, duration, rms_energy, a_rhythm, melspec, a_bands,
                 a_seg, feature_vector, l_beat, band_bins, l_desc, l_seg, after>>

MelPattern(w) ==
  CASE w.shape = "silent" -> "zero"
    [] w.shape = "steady" -> "flat"
    [] w.shape = "varying" -> "ramp"

\* 3. self.melspec.  librosa pads the signal on both sides (and only warns
\* when it is shorter than n_fft), so every signal gives 1 + n // hop
\* frames.  torchaudio pads by reflection, which torch refuses when the
\* padding, n_fft // 2, is not shorter than the signal.
MelSpectrogram ==
  /\ pc = "melspec"
  /\ IF kind = "SongTorchaudio" /\ wave.n <= cfg.n_fft \div 2
     THEN /\ Raise("RuntimeError")
          /\ UNCHANGED <<melspec, assigned>>
     ELSE /\ melspec' = [n_mels |-> cfg.n_mels, frames |-> Frames,
                         pat |-> MelPattern(wave)]
          /\ assigned' = assigned \cup {"melspec"}
          /\ pc' = "bass"
          /\ NoRaise
  /\ UNCHANGED <<input, duration, rms_energy, a_rhythm, a_hpss, a_bands,
                 a_seg, feature_vector, l_beat, band_bins, l_desc, l_seg, after>>

\* 3. The three band traces, each one call of the helper on self.melspec.
BandCall(range) == GetSpectralBandEnergy(melspec, range, wave.sr)

\* The locals start_band and end_band of one call.
Bins(r) == <<r.start_band, r.end_band>>

BassEnergy ==
  /\ pc = "bass"
  /\ bass_energy' = BandCall(BassHz).band_energy
  /\ band_bins' = [b \in {"bass"} |-> Bins(BandCall(BassHz))]
  /\ assigned' = assigned \cup {"bass_energy"}
  /\ pc' = "mid"
  /\ UNCHANGED <<input, err, raised_in, duration, rms_energy, a_rhythm, a_hpss, melspec,
                 mid_energy, treble_energy, a_seg, feature_vector, l_beat,
                 l_desc, l_seg, after>>

MidEnergy ==
  /\ pc = "mid"
  /\ mid_energy' = BandCall(MidHz).band_energy
  /\ band_bins' = [b \in {"bass", "mid"} |->
                     IF b = "mid" THEN Bins(BandCall(MidHz)) ELSE band_bins[b]]
  /\ assigned' = assigned \cup {"mid_energy"}
  /\ pc' = "treble"
  /\ UNCHANGED <<input, err, raised_in, duration, rms_energy, a_rhythm, a_hpss, melspec,
                 bass_energy, treble_energy, a_seg, feature_vector, l_beat,
                 l_desc, l_seg, after>>

\* The treble band followed at once by the feature vector, the
\* segmentation left out.
TrebleEnergyThenVector ==
  /\ pc = "treble"
  /\ treble_energy' = BandCall(TrebleHz).band_energy
  /\ band_bins' = [b \in {"bass", "mid", "treble"} |->
                     IF b = "treble" THEN Bins(BandCall(TrebleHz)) ELSE band_bins[b]]
  /\ assigned' = assigned \cup {"treble_energy"}
  /\ pc' = "vector"
  /\ UNCHANGED <<input, err, raised_in, duration, rms_energy, a_rhythm, a_hpss, melspec,
                 bass_energy, mid_energy, a_seg, feature_vector, l_beat,
                 l_desc, l_seg, after>>

TrebleEnergy ==
  /\ pc = "treble"
  /\ treble_energy' = BandCall(TrebleHz).band_energy
  /\ band_bins' = [b \in {"bass", "mid", "treble"} |->
                     IF b = "treble" THEN Bins(BandCall(TrebleHz)) ELSE band_bins[b]]
  /\ assigned' = assigned \cup {"treble_energy"}
  /\ pc' = "mfcc"
  /\ UNCHANGED <<input, err, raised_in, duration, rms_energy, a_rhythm, a_hpss, melspec,
                 bass_energy, mid_energy, a_seg, feature_vector, l_beat,
                 l_desc, l_seg, after>>

\* 4. mfccs: librosa.feature.mfcc gives 20 coefficients, the torchaudio
\* transform n_mfcc = 13; one column per frame.
Mfcc ==
  /\ pc = "mfcc"
  /\ mfccs' = [rows |-> IF kind = "Song" THEN 20 ELSE TorchNMfcc,
               cols |-> DescriptorColumns(wave, Frames, 0)]
  /\ pc' = "chroma"
  /\ UNCHANGED <<input, err, raised_in, assigned, attrs, l_beat, band_bins, chroma,
                 stacked_features, R, l_seg, after>>

\* 4. chroma = chroma_cqt(...): 12 pitch classes per frame.
ChromaCqt ==
  /\ pc = "chroma"
  /\ \E f \in ChromaFrameCounts(Frames) :
       chroma' = [rows |-> 12, cols |-> DescriptorColumns(wave, f, 100)]
  /\ pc' = "stack"
  /\ UNCHANGED <<input, err, raised_in, assigned, attrs, l_beat, band_bins, mfccs,
                 stacked_features, R, l_seg, after>>

\* np.vstack([a, b]): the rows of a over the rows of b; column t of the
\* result pairs column t of each.  The caller sees to equal column counts.
NpVStack(a, b) ==
  [rows |-> a.rows + b.rows,
   cols |-> [t \in 1..Len(a.cols) |-> <<a.cols[t], b.cols[t]>>]]

\* m[:, :k]: the first k columns.
FirstColumns(m, k) == [rows |-> m.rows, cols |-> SubSeq(m.cols, 1, k)]

\* 4. stacked_features.  Song stacks the two matrices as they are, and
\* np.vstack raises ValueError when their column counts differ.
\* SongTorchaudio first cuts both to min_frames columns.
Stack ==
  /\ pc = "stack"
  /\ IF kind = "Song"
     THEN IF Len(mfccs.cols) = Len(chroma.cols)
          THEN /\ stacked_features' = NpVStack(mfccs, chroma)
               /\ pc' = "recurrence"
               /\ NoRaise
          ELSE /\ Raise("ValueError")
               /\ UNCHANGED stacked_features
     ELSE LET min_frames == Min(Len(mfccs.cols), Len(chroma.cols))
          IN  /\ stacked_features' =
                   NpVStack(FirstColumns(mfccs, min_frames),
                            FirstColumns(chroma, min_frames))
              /\ pc' = "recurrence"
              /\ NoRaise
  /\ UNCHANGED <<input, assigned, attrs, l_beat, band_bins, mfccs, chroma, R,
                 l_seg, after>>

\* 4. The affinity matrix R, held as its size and whether it holds NaN.
\*
\* Song: librosa.segment.recurrence_matrix(width=5, mode='affinity').  It
\* raises ParameterError for fewer than width frames; depending on the
\* librosa release it also raises for width >= (t - 1) // 2 and when all
\* frames coincide (no bandwidth can be estimated); otherwise it returns a
\* finite matrix.
\*
\* SongTorchaudio: R_sq = squareform(pdist(...)); R_affinity =
\* 1 - R_sq / np.max(R_sq).  When no two frames differ np.max(R_sq) is 0,
\* the quotient 0 / 0 is NaN in every cell, and numpy only warns.
Recurrence ==
  /\ pc = "recurrence"
  /\ LET cols == stacked_features.cols
         t == Len(cols)
     IN  IF kind = "Song"
         THEN \/ /\ \/ t < RecWidth
                    \/ RecWidth >= (t - 1) \div 2
                    \/ AllColumnsEqual(cols)
                 /\ Raise("ParameterError")
                 /\ UNCHANGED R
              \/ /\ t >= RecWidth
                 /\ R' = [n |-> t, nan |-> FALSE]
                 /\ pc' = "cluster"
                 /\ NoRaise
         ELSE LET R_sq == SquareForm(cols)
                  quot == [c \in DOMAIN R_sq |-> Frac(R_sq[c], NpMax(R_sq, t))]
              IN  /\ R' = [n |-> t, nan |-> \E c \in DOMAIN quot : IsNaN(quot[c])]
                  /\ pc' = "cluster"
                  /\ NoRaise
  /\ UNCHANGED <<input, assigned, attrs, l_beat, band_bins, mfccs, chroma,
                 stacked_features, l_seg, after>>

\* 4. segment_labels = AgglomerativeClustering(n_clusters=n_segments,
\* linkage='ward').fit_predict(1 - R).  scikit-learn raises ValueError for
\* input holding NaN, for fewer than 2 samples, and when asked for more
\* clusters than there are samples.
\* The cluster count clamped to the number of samples.
NClustersClamped(n) == Min(n_segments, n)

\* n_clusters=n_segments, whatever the number of samples.
NClusters(n) == n_segments

Cluster ==
  /\ pc = "cluster"
  /\ IF R.nan \/ R.n < 2 \/ NClusters(R.n) > R.n
     THEN /\ Raise("ValueError")
          /\ UNCHANGED labels
     ELSE /\ labels' \in Labellings(R.n, NClusters(R.n))
          /\ pc' = "boundaries"
          /\ NoRaise
  /\ UNCHANGED <<input, assigned, attrs, l_beat, band_bins, l_desc,
                 boundaries, after>>

\* 4. boundaries = np.where(np.diff(segment_labels))[0];
\* self.segment_boundaries = frames_to_time(boundaries);
\* self.segment_labels = segment_labels.
Boundaries ==
  /\ pc = "boundaries"
  /\ boundaries' = NpWhereDiff(labels)
  /\ segment_boundaries' =
       FramesToTime(NpWhereDiff(labels), wave.sr, cfg.hop_length)
  /\ segment_labels' = labels
  /\ assigned' = assigned \cup {"segment_boundaries", "segment_labels"}
  /\ pc' = "vector"
  /\ UNCHANGED <<input, err, raised_in, duration, rms_energy, a_rhythm, a_hpss, melspec,
                 a_bands, feature_vector, l_beat, band_bins, l_desc, labels,
                 after>>

\* The vector with the means of bass and mid in each other's place.
MakeFeatureVectorSwapped(tp, rms, bass, mid, treble) ==
  <<tp, rms, NpMean(mid), NpMean(bass), NpMean(treble),
    NpStd(bass), NpStd(mid), NpStd(treble)>>

\* 5. self.feature_vector = np.array([...]).
MakeFeatureVector(tp, rms, bass, mid, treble) ==
  <<tp, rms, NpMean(bass), NpMean(mid), NpMean(treble),
    NpStd(bass), NpStd(mid), NpStd(treble)>>

FeatureVector ==
  /\ pc = "vector"
  /\ feature_vector' =
       MakeFeatureVector(tempo, rms_energy, bass_energy, mid_energy, treble_energy)
  /\ assigned' = assigned \cup {"feature_vector"}
  /\ pc' = "done"
  /\ UNCHANGED <<input, err, raised_in, duration, rms_energy, a_rhythm, a_hpss, melspec,
                 a_bands, a_seg, l_beat, band_bins, l_desc, l_seg, after>>

(* ----------------------------- summarize ------------------------------ *)

\* summarize(): prints the attributes; the segment count it prints is
\* len(self.segment_boundaries) + 1.
Summarize ==
  /\ pc = "done"
  /\ reported_segments' = Len(segment_boundaries) + 1
  /\ UNCHANGED <<input, pc, err, raised_in, assigned, attrs, locals, ret, other>>

(* ---------------------------- plot_features ---------------------------- *)

\* plot_features with the mel spectrogram converted to dB in place:
\* self.melspec = power_to_db(self.melspec).
PlotFeaturesInPlaceDb ==
  /\ pc = "done"
  /\ plot_saved' = TRUE
  /\ melspec' = [melspec EXCEPT !.pat = "db"]
  /\ UNCHANGED <<input, pc, err, raised_in, assigned, duration, rms_energy,
                 a_rhythm, a_hpss, a_bands, a_seg, feature_vector, locals,
                 reported_segments, ret, freq_range_hz, client, runs>>

\* plot_features(): draws the waveform with beats and onsets, the three
\* band traces, the harmonic and percussive signals and the mel spectrogram
\* in dB (a new array) with the segment boundaries, saves and closes the
\* figure.  It reads the attributes and assigns none.
PlotFeatures ==
  /\ pc = "done"
  /\ plot_saved' = TRUE
  /\ UNCHANGED <<input, pc, err, raised_in, assigned, attrs, locals,
                 reported_segments, ret, freq_range_hz, client, runs>>

Next ==
  \/ Duration
  \/ RmsEnergy
  \/ BeatTrackStage
  \/ OnsetStage
  \/ Hpss
  \/ MelSpectrogram
  \/ BassEnergy
  \/ MidEnergy
  \/ TrebleEnergy
  \/ Mfcc
  \/ ChromaCqt
  \/ Stack
  \/ Recurrence
  \/ Cluster
  \/ Boundaries
  \/ FeatureVector
  \/ Summarize
  \/ PlotFeatures

Spec == Init /\ [][Next]_vars

(* ---------------- the band helper called on its own -------------------- *)

\* Frequency ranges (low_hz, high_hz) handed to the helper: the three the
\* pipeline uses, a one-point range and two inverted ones.
HelperRanges ==
  {BassHz, MidHz, TrebleHz, <<250, 250>>, <<4000, 250>>, <<20000, 20>>}

\* Any mel spectrogram the pipeline can hold, before the helper is called.
BandInit ==
  /\ kind \in {"Song", "SongTorchaudio"}
  /\ cfg \in (IF kind = "Song" THEN {SongConfig} ELSE TorchConfigs)
  /\ \E n \in SampleCounts(cfg.hop_length), s \in Shapes,
        sr \in (IF kind = "Song" THEN {LoadSr} ELSE {22050, 44100}) :
       wave = [n |-> n, sr |-> sr, shape |-> s]
  /\ pc = "helper"
  /\ err = "none" /\ raised_in = "none"
  /\ assigned = {"melspec"}
  /\ melspec = [n_mels |-> cfg.n_mels, frames |-> Frames, pat |-> MelPattern(wave)]
  /\ duration = Zero /\ rms_energy = Zero /\ tempo = Zero
  /\ beats = <<>> /\ onsets = <<>>
  /\ y_harmonic = 0 /\ y_percussive = 0
  /\ bass_energy = <<>> /\ mid_energy = <<>> /\ treble_energy = <<>>
  /\ segment_boundaries = <<>> /\ segment_labels = <<>>
  /\ feature_vector = <<>>
  /\ tempo_est = <<>> /\ beat_frames = <<>>
  /\ band_bins = [b \in {} |-> <<0, 0>>]
  /\ mfccs = NoMatrix /\ chroma = NoMatrix /\ stacked_features = NoMatrix
  /\ R = [n |-> 0, nan |-> FALSE]
  /\ labels = <<>> /\ boundaries = <<>>
  /\ reported_segments = -1
  /\ ret = NoBand
  /\ OtherUnset

\* One call _get_spectral_band_energy(self.melspec, range).  The helper has
\* no raise statement and its numpy calls accept every range: it returns.
HelperCall ==
  /\ pc = "helper"
  /\ \E range \in HelperRanges :
       /\ ret' = BandCall(range)
       /\ freq_range_hz' = <<100 * range[1], 100 * range[2]>>
  /\ pc' = "returned"
  /\ UNCHANGED <<input, err, raised_in, assigned, attrs, locals, reported_segments,
                 plot_saved, client, runs>>

BandNext == HelperCall

BandSpec == BandInit /\ [][BandNext]_vars

(* ------------------------------ claims -------------------------------- *)

\* x is the mean of the non-empty array s.
IsMeanOf(x, s) ==
  /\ Len(s) > 0
  /\ x.root = 1 /\ x.den > 0
  /\ x.num * Len(s) = SeqSum(s) * x.den

\* x is the standard deviation of the non-empty array s: the root of
\* mean(s^2) - mean(s)^2.
IsStdOf(x, s) ==
  /\ Len(s) > 0
  /\ x.root = 2 /\ x.den > 0
  /\ x.num * Len(s) * Len(s) =
       x.den * (Len(s) * SeqSumSq(s) - SeqSum(s) * SeqSum(s))

\* C1: every completed run, of either extractor, holds a feature vector of
\* exactly 8 elements in the order tempo, mean RMS energy, mean bass, mean
\* mid, mean treble, std bass, std mid, std treble.
C1_FeatureVectorLayout ==
  pc = "done" =>
    /\ "feature_vector" \in assigned
    /\ Len(feature_vector) = 8
    /\ feature_vector[1] = tempo
    /\ feature_vector[2] = rms_energy
    /\ IsMeanOf(feature_vector[3], bass_energy)
    /\ IsMeanOf(feature_vector[4], mid_energy)
    /\ IsMeanOf(feature_vector[5], treble_energy)
    /\ IsStdOf(feature_vector[6], bass_energy)
    /\ IsStdOf(feature_vector[7], mid_energy)
    /\ IsStdOf(feature_vector[8], treble_energy)

\* A completed run whose eight entries all differ, so that no two places
\* of the vector can be exchanged unnoticed.
C1_Witness ==
  /\ pc = "done"
  /\ Len(feature_vector) = 8
  /\ \A i, j \in 1..8 : i # j => feature_vector[i] # feature_vector[j]

\* The label of frame i (0-based), and the number of maximal runs of equal
\* labels of a label sequence.
LabelAt(l, i) == l[i + 1]
RunStarts(l) == {i \in 1..(Len(l) - 1) : LabelAt(l, i) # LabelAt(l, i - 1)}
RunCount(l) == IF Len(l) = 0 THEN 0 ELSE 1 + Cardinality(RunStarts(l))

\* C2: the boundary frames are exactly the indices i, 1 <= i < n, with
\* label[i] # label[i-1] (the first frame of each new run), each converted
\* to the time i * hop / sr, and the segment count summarize reports,
\* boundaries + 1, is the number of maximal runs of equal labels.
C2_BoundariesAtRunStarts ==
  "segment_boundaries" \in assigned =>
    /\ Distinct(boundaries) = RunStarts(segment_labels)
    /\ Len(boundaries) = Cardinality(RunStarts(segment_labels))
    /\ segment_boundaries =
         [k \in 1..Len(boundaries) |->
            Frac(boundaries[k] * cfg.hop_length, wave.sr)]
    /\ reported_segments # -1 => reported_segments = RunCount(segment_labels)
\* The mel bins one band sums: start_band..end_band, both included.
BinsOf(b) == band_bins[b][1]..band_bins[b][2]

\* C3: with the default bands (bass 20-250, mid 250-4000, treble
\* 4000-20000 Hz, contiguous and non-overlapping) no mel bin is summed into
\* two bands: the bin ranges of adjacent bands are disjoint.
C3_AdjacentBandsDisjoint ==
  /\ {"bass", "mid"} \subseteq DOMAIN band_bins =>
       BinsOf("bass") \cap BinsOf("mid") = {}
  /\ {"mid", "treble"} \subseteq DOMAIN band_bins =>
       BinsOf("mid") \cap BinsOf("treble") = {}

\* C4: the band helper, given a range whose start bin is greater than its
\* end bin, fails with InvalidConfig; it never returns a trace computed
\* from an empty bin range.
C4_InvertedRangeRejected ==
  pc = "returned" => ret.start_band <= ret.end_band

AllZero(s) == \A i \in 1..Len(s) : s[i] = 0

\* The stacked descriptor matrix exists, with its columns.
Stacked == stacked_features.rows > 0
StackedFrames == Len(stacked_features.cols)

\* C5: a silent waveform yields RMS energy 0, band energies 0, tempo 0 and
\* no onsets, and the segmentation stage (normalisation, then clustering)
\* does not turn silence into an error: on a silent track with at least
\* n_segments frames the clustering does not raise.
C5_SilenceIsNotAnError ==
  wave.shape = "silent" =>
    /\ rms_energy = Zero /\ tempo = Zero /\ onsets = <<>>
    /\ AllZero(bass_energy) /\ AllZero(mid_energy) /\ AllZero(treble_energy)
    /\ ~(Stacked /\ StackedFrames >= n_segments /\ raised_in = "cluster")

C7_ShortInputHasNoSpectrogram ==
  wave.n < cfg.n_fft => "melspec" \notin assigned

\* C8: in both extractors MFCC and chroma are cut to the smaller of their
\* frame counts before they are stacked, so the stacked matrix has exactly
\* min(frames(MFCC), frames(chroma)) columns and stacking never fails on a
\* frame-count mismatch.
C8_StackTruncates ==
  /\ raised_in # "stack"
  /\ Stacked => StackedFrames = Min(Len(mfccs.cols), Len(chroma.cols))

StrictlyIncreasing(ts) ==
  \A i \in 1..(Len(ts) - 1) : Less(ts[i], ts[i + 1])

WithinDuration(ts) ==
  \A i \in 1..Len(ts) : Leq(Zero, ts[i]) /\ Leq(ts[i], duration)

\* C10: the beat, onset and segment boundary timestamps of one run are each
\* strictly increasing and lie within [0, duration].
C10_TimestampsOrdered ==
  \A ts \in {beats, onsets, segment_boundaries} :
    StrictlyIncreasing(ts) /\ WithinDuration(ts)

\* A completed run with a hop length other than librosa's default and
\* several beats, onsets and boundaries.
C10_Witness ==
  /\ pc = "done"
  /\ cfg.hop_length # DefaultHop
  /\ Len(beats) >= 2 /\ Len(onsets) >= 2 /\ Len(segment_boundaries) >= 2

\* C11: every segment boundary timestamp lies strictly inside
\* (0, duration): no boundary is reported at time 0 (frame 0) nor at the
\* end of the track, whatever label sequence the clustering returns.
C11_BoundariesInsideTrack ==
  "segment_boundaries" \in assigned =>
    \A i \in 1..Len(segment_boundaries) :
      /\ Less(Zero, segment_boundaries[i])
      /\ Less(segment_boundaries[i], duration)

NonNegative(s) == \A i \in 1..Len(s) : s[i] >= 0

\* C13: each band trace (bass, mid, treble) and the per-frame label
\* sequence have exactly as many entries as the mel spectrogram has time
\* frames, and every band value is non-negative.
C13_TracesAlignedToSpectrogram ==
  /\ "bass_energy" \in assigned =>
       Len(bass_energy) = melspec.frames /\ NonNegative(bass_energy)
  /\ "mid_energy" \in assigned =>
       Len(mid_energy) = melspec.frames /\ NonNegative(mid_energy)
  /\ "treble_energy" \in assigned =>
       Len(treble_energy) = melspec.frames /\ NonNegative(treble_energy)
  /\ "segment_labels" \in assigned =>
       Len(segment_labels) = melspec.frames

(* --------------- SongTorchaudio built with any arguments --------------- *)

\* Values a caller can pass for n_fft, hop_length and n_mels: __init__
\* stores whatever it is given.  Song takes no such argument, and in both
\* extractors the segment count is the literal 8.
AnyConfigs ==
  [n_fft : {-1, 0, DefaultNFft}, hop_length : {-1, 0, DefaultHop},
   n_mels : {-1, 0, DefaultNMels}]

\* SongTorchaudio.__init__ up to the call of _extract_features, for any
\* arguments: the three values are stored unchecked and the file is loaded.
ConfigInit ==
  /\ kind = "SongTorchaudio"
  /\ cfg \in AnyConfigs
  /\ \E n \in SampleCounts(DefaultHop), sr \in {22050, 44100}, s \in Shapes :
       wave = [n |-> n, sr |-> sr, shape |-> s]
  /\ pc = "duration"
  /\ Unset

\* The first statement of _extract_features, which reads none of the three
\* values: self.duration = samples / sr.
ConfigNext == Duration

ConfigSpec == ConfigInit /\ [][ConfigNext]_vars

\* A configuration with positive window size, hop length and mel-band
\* count.
ValidConfig(c) == c.n_fft > 0 /\ c.hop_length > 0 /\ c.n_mels > 0

\* C14: a malformed configuration (non-positive window size, hop length or
\* mel-band count) is rejected with InvalidConfig at pipeline start: in a
\* run with such a configuration no stage runs and no feature attribute is
\* ever set.
C14_InvalidConfigRejected ==
  ~ValidConfig(cfg) =>
    /\ assigned = {}
    /\ pc \in {"duration", "failed"}
    /\ pc = "failed" => err = "InvalidConfig"

(* --------- the band helper on boundaries around the bin centres -------- *)

\* How far apart, in bins, the two boundaries of a probed range lie.
MaxGap == 2

\* Boundaries (in 0.01 Hz) at and around centre i (1-based) of freqs: the
\* centre, just below it, half way to the next centre and just past half
\* way; for the last centre, the Nyquist frequency, just above it and far
\* above it.
Probe(freqs, i, k) ==
  CASE k = "centre" -> freqs[i]
    [] k = "before" -> freqs[i] - 1
    [] k = "half" ->
         IF i < Len(freqs) THEN (freqs[i] + freqs[i + 1]) \div 2
         ELSE freqs[i] + 1
    [] k = "past_half" ->
         IF i < Len(freqs) THEN (freqs[i] + freqs[i + 1]) \div 2 + 1
         ELSE 2 * freqs[i]

ProbeKinds == {"centre", "before", "half", "past_half"}

\* A mel spectrogram of two frames of a varying signal, before the helper
\* is called.
MapInit ==
  /\ BandInit
  /\ wave.n = cfg.hop_length
  /\ wave.shape = "varying"

\* One call _get_spectral_band_energy(self.melspec, (low, high)) with the
\* two boundaries on or between bin centres, low <= high.
MapCall ==
  /\ pc = "helper"
  /\ LET freqs == MelFrequencies(melspec.n_mels, wave.sr)
     IN  \E i \in 1..Len(freqs), k1, k2 \in ProbeKinds :
           \E j \in (i..Min(i + MaxGap, Len(freqs))) \cup {Len(freqs)} :
             LET low == Probe(freqs, i, k1)
                 high == Probe(freqs, j, k2)
                 start_band == NpArgMinAbsAt(freqs, low)
                 end_band == NpArgMinAbsAt(freqs, high)
             IN  /\ low <= high
                 /\ freq_range_hz' = <<low, high>>
                 /\ ret' = [start_band |-> start_band,
                            end_band |-> end_band,
                            band_energy |->
                              NpSumRows(melspec, start_band, end_band + 1)]
  /\ pc' = "returned"
  /\ UNCHANGED <<input, err, raised_in, assigned, attrs, locals, reported_segments,
                 plot_saved, client, runs>>

MapNext == MapCall

MapSpec == MapInit /\ [][MapNext]_vars

\* Bin b (0-based) is the bin of freqs nearest to x, and the lowest such.
NearestLowest(freqs, x, b) ==
  /\ b \in 0..(Len(freqs) - 1)
  /\ \A j \in 0..(Len(freqs) - 1) :
       /\ Abs(freqs[b + 1] - x) <= Abs(freqs[j + 1] - x)
       /\ j < b => Abs(freqs[b + 1] - x) < Abs(freqs[j + 1] - x)

\* Some other bin is as near to x as bin b.
Tied(freqs, x, b) ==
  \E j \in 0..(Len(freqs) - 1) :
    j # b /\ Abs(freqs[j + 1] - x) = Abs(freqs[b + 1] - x)

\* C15: the helper maps a Hz boundary to the index of the nearest mel-bin
\* centre, the lower index when two centres are equally near; a larger
\* boundary never maps to a smaller index, and a boundary above Nyquist
\* maps to the last bin.
C15_NearestMelBin ==
  pc = "returned" =>
    LET freqs == MelFrequencies(melspec.n_mels, wave.sr)
        last == Len(freqs) - 1
    IN  /\ NearestLowest(freqs, freq_range_hz[1], ret.start_band)
        /\ NearestLowest(freqs, freq_range_hz[2], ret.end_band)
        /\ ret.start_band <= ret.end_band
        /\ freq_range_hz[1] > freqs[last + 1] => ret.start_band = last
        /\ freq_range_hz[2] > freqs[last + 1] => ret.end_band = last

\* A call whose lower boundary is exactly half way between two centres and
\* whose upper boundary is above Nyquist.
C15_Witness ==
  /\ pc = "returned"
  /\ Tied(MelFrequencies(melspec.n_mels, wave.sr), freq_range_hz[1], ret.start_band)
  /\ freq_range_hz[2] > MelFrequencies(melspec.n_mels, wave.sr)[melspec.n_mels]
  /\ ret.start_band < ret.end_band

\* C16: when the track has at least n_segments frames the segmentation
\* stage labels it: the clustering does not refuse it, and the labels it
\* returns are one integer per frame with exactly n_segments distinct
\* values.
C16_EveryFrameLabelled ==
  (Stacked /\ StackedFrames >= n_segments) =>
    /\ raised_in # "cluster"
    /\ pc \in {"boundaries", "vector", "done"} =>
         /\ Len(labels) = StackedFrames
         /\ \A i \in 1..Len(labels) : labels[i] \in 0..(n_segments - 1)
         /\ Cardinality(Distinct(labels)) = n_segments

\* The stages of _extract_features in the order of its statements.
StageOrder ==
  <<"duration", "rms", "beat", "onset", "hpss", "melspec", "bass", "mid",
    "treble", "mfcc", "chroma", "stack", "recurrence", "cluster",
    "boundaries", "vector", "done">>

\* One stage ran: the run moved to the next stage of the order, or the
\* stage raised and the run ended.
OneStageStep ==
  \/ pc' = pc
  \/ pc' = "failed" /\ pc \notin {"done", "failed"}
  \/ \E i \in 1..(Len(StageOrder) - 1) :
       pc = StageOrder[i] /\ pc' = StageOrder[i + 1]

\* Every value a finished or waiting stage reads exists.
InputsReady ==
  /\ pc \in {"bass", "mid", "treble"} => "melspec" \in assigned
  /\ assigned \cap {"bass_energy", "mid_energy", "treble_energy"} # {} =>
       "melspec" \in assigned
  /\ pc = "stack" => mfccs.rows > 0 /\ chroma.rows > 0
  /\ labels # <<>> => mfccs.rows > 0 /\ chroma.rows > 0 /\ Stacked
  /\ pc = "boundaries" => labels # <<>>
  /\ "segment_boundaries" \in assigned => labels # <<>>
  /\ pc = "vector" =>
       {"tempo", "rms_energy", "bass_energy", "mid_energy", "treble_energy",
        "segment_labels", "segment_boundaries"} \subseteq assigned
  /\ "feature_vector" \in assigned =>
       /\ pc = "done"
       /\ assigned =
            {"duration", "rms_energy", "tempo", "beats", "onsets",
             "y_harmonic", "y_percussive", "melspec", "bass_energy",
             "mid_energy", "treble_energy", "segment_boundaries",
             "segment_labels", "feature_vector"}

\* C17: within one run the stages execute one at a time in a fixed order,
\* and none starts before the stages whose output it reads have finished:
\* the bands after the mel spectrogram, the boundaries after the labels,
\* the labels after MFCC and chroma, the feature vector last.
C17_StagesInDependencyOrder ==
  []InputsReady /\ [][OneStageStep]_vars

\* A run that went through every stage.
C17_Witness ==
  /\ pc = "done"
  /\ "feature_vector" \in assigned
  /\ labels # <<>>
  /\ Len(bass_energy) = melspec.frames

\* The features of an analysis result, by attribute name.
FeatureNames ==
  {"duration", "rms_energy", "tempo", "beats", "onsets", "y_harmonic",
   "y_percussive", "melspec", "bass_energy", "mid_energy", "treble_energy",
   "segment_boundaries", "segment_labels", "feature_vector"}

FeatureValue ==
  [duration |-> duration, rms_energy |-> rms_energy, tempo |-> tempo,
   beats |-> beats, onsets |-> onsets, y_harmonic |-> y_harmonic,
   y_percussive |-> y_percussive, melspec |-> melspec,
   bass_energy |-> bass_energy, mid_energy |-> mid_energy,
   treble_energy |-> treble_energy,
   segment_boundaries |-> segment_boundaries,
   segment_labels |-> segment_labels, feature_vector |-> feature_vector]

\* A step assigns a feature only if it was not assigned before, and never
\* takes an assignment back.
AssignedOnce ==
  /\ assigned \subseteq assigned'
  /\ \A a \in FeatureNames :
       FeatureValue'[a] # FeatureValue[a] =>
         a \notin assigned /\ a \in assigned'

\* C19: every feature of an analysis result is assigned exactly once
\* during extraction (all of them by the time the run is done) and is left
\* unchanged by summarize and plot_features.
C19_FeaturesAssignedOnce ==
  /\ [](pc = "done" => assigned = FeatureNames)
  /\ [][AssignedOnce]_vars
  /\ [][pc = "done" => UNCHANGED <<attrs, assigned>>]_vars

\* A finished run, summarized and plotted, with a non-empty spectrogram.
C19_Witness ==
  /\ pc = "done"
  /\ plot_saved /\ reported_segments # -1
  /\ assigned = FeatureNames
  /\ melspec.pat # "zero"

(* ------------------------- the Spotify client -------------------------- *)

\* The most SpotifyAPI calls of one behaviour, the most playlists, and the
\* most items the model lets one playlist hold.
MaxCalls == 2
MaxPlaylists == 3
MaxItems == 104

\* Tracks are sent and removed in chunks of 100.
ChunkSize == 100

\* The page sizes spotipy asks for when the caller names none:
\* playlist_items(limit=100) and current_user_saved_tracks(limit=20).
PlaylistPageLimit == 100
SavedPageLimit == 20

\* Everything of the state that belongs to the extractors.
extractor ==
  <<kind, cfg, wave, pc, err, raised_in, assigned, attrs, locals,
    reported_segments, ret, freq_range_hz, plot_saved, runs>>

\* self.user_id: the id of the user the client is logged in as.
UserId == "me"

\* Names are sequences of characters.
Sb == <<"_", "s", "b">>

\* s.endswith(suffix).
EndsWith(s, suffix) ==
  /\ Len(s) >= Len(suffix)
  /\ SubSeq(s, Len(s) - Len(suffix) + 1, Len(s)) = suffix

\* Names a caller may ask for, with and without the suffix.
Names ==
  {<<"m", "i", "x">>, <<"m", "i", "x", "_", "s", "b">>, <<"s", "b">>, Sb}

\* The tracks of the catalogue; an item whose 'track' is None holds NoTrack.
TrackIds == {1, 2}
NoTrack == 0

\* What Spotify holds about each track.  Names are given by their place in
\* string order ('' is 0), popularity as the integer it is.
Catalogue ==
  [t \in TrackIds |->
     IF t = 1
     THEN [artist |-> 2, album |-> 1, name |-> 2, popularity |-> 10]
     ELSE [artist |-> 1, album |-> 1, name |-> 1, popularity |-> 70]]

Item(t, at) == [track |-> t, added_at |-> at]

Range(s) == {s[i] : i \in 1..Len(s)}

\* More ids than one chunk holds.
LongIds == [i \in 1..(ChunkSize + 1) |-> 1 + (i % 2)]

\* More liked songs than one page holds: the two tracks, then items
\* whose track Spotify no longer has.
LikedSongs ==
  [i \in 1..(SavedPageLimit + 1) |-> Item(IF i <= 2 THEN i ELSE NoTrack, 0)]

\* The track_ids argument: one id, or a list of ids.
TrackArgs ==
  {[is_list |-> FALSE, value |-> 1]}
    \cup {[is_list |-> TRUE, value |-> l] :
            l \in {<<>>, <<2>>, <<1, 2, 1>>, LongIds}}

\* if not isinstance(track_ids, list): track_ids = [track_ids].
AsList(arg) == IF arg.is_list THEN arg.value ELSE <<arg.value>>

\* The slice one id too long: track_ids[i:i+101].
ChunkOneMore(ids, i) == SubSeq(ids, i + 1, Min(i + ChunkSize + 1, Len(ids)))

\* track_ids[i:i+100], i counted from 0.
Chunk(ids, i) == SubSeq(ids, i + 1, Min(i + ChunkSize, Len(ids)))

\* range(from, len(ids), 100): the starts of the chunks.
ChunkStarts(ids, from) ==
  {i \in from..(Len(ids) - 1) : (i - from) % ChunkSize = 0}

\* The requests of one chunk loop, in order.
ChunkRequests(op, pid, ids, from) ==
  [k \in 1..Cardinality(ChunkStarts(ids, from)) |->
     [op |-> op, playlist_id |-> pid,
      items |-> Chunk(ids, from + (k - 1) * ChunkSize)]]

(* What Spotify does with each modifying request. *)

\* playlist_add_items: the tracks are appended, stamped with the time.
AddItems(pl, pid, chunk, at) ==
  [pl EXCEPT ![pid].items =
     @ \o [k \in 1..Len(chunk) |-> Item(chunk[k], at)]]

\* Only the first item holding one of the tracks is removed.
RemoveFirstOccurrence(pl, pid, chunk) ==
  LET its == pl[pid].items
      hits == {i \in 1..Len(its) : its[i].track \in Range(chunk)}
  IN  IF hits = {} THEN pl
      ELSE LET i == CHOOSE h \in hits : \A g \in hits : h <= g
           IN  [pl EXCEPT ![pid].items =
                  SubSeq(its, 1, i - 1) \o SubSeq(its, i + 1, Len(its))]

\* playlist_remove_all_occurrences_of_items.
RemoveAllOccurrences(pl, pid, chunk) ==
  [pl EXCEPT ![pid].items = SelectSeq(@, LAMBDA it : it.track \notin Range(chunk))]

\* playlist_replace_items: the playlist holds exactly the tracks sent.
ReplaceItems(pl, pid, chunk, at) ==
  [pl EXCEPT ![pid].items = [k \in 1..Len(chunk) |-> Item(chunk[k], at)]]

\* current_user_unfollow_playlist.
Unfollow(pl, pid) == [pl EXCEPT ![pid].followed = FALSE]

\* for i in range(from, len(ids), 100): playlist_add_items(pid, chunk); sleep.
RECURSIVE AddChunks(_, _, _, _, _)
AddChunks(pl, pid, ids, i, at) ==
  IF i >= Len(ids) THEN pl
  ELSE AddChunks(AddItems(pl, pid, Chunk(ids, i), at), pid, ids,
                 i + ChunkSize, at + 1)

\* for i in range(0, len(ids), 100): remove all occurrences of the chunk.
RECURSIVE RemoveChunks(_, _, _, _)
RemoveChunks(pl, pid, ids, i) ==
  IF i >= Len(ids) THEN pl
  ELSE RemoveChunks(RemoveAllOccurrences(pl, pid, Chunk(ids, i)), pid, ids,
                    i + ChunkSize)

(* list_songs *)

\* The loop stopping after the first page, whatever its 'next' link says.
ReadFirstPage(items, offset, limit) ==
  SubSeq(items, offset + 1, Min(offset + limit, Len(items)))

\* The while loop of list_songs over the pages of one collection: a page
\* of at most limit items, then the page its 'next' link names, until a
\* page has none.
RECURSIVE ReadPages(_, _, _)
ReadPages(items, offset, limit) ==
  LET page == SubSeq(items, offset + 1, Min(offset + limit, Len(items)))
  IN  IF offset + limit < Len(items)
      THEN page \o ReadPages(items, offset + limit, limit)
      ELSE page

\* The pages the same loop fetches, each by the offset of its first item:
\* the first page, then one more for every 'next' link.
RECURSIVE PagesRead(_, _, _)
PagesRead(items, offset, limit) ==
  <<[op |-> "get", offset |-> offset]>>
    \o (IF offset + limit < Len(items)
        THEN PagesRead(items, offset + limit, limit)
        ELSE <<>>)

\* list_songs(playlist_id): a playlist's items, or the Liked Songs when
\* the id is falsy.
ListSongsOf(pid) ==
  IF pid # 0 THEN ReadPages(playlists[pid].items, 0, PlaylistPageLimit)
  ELSE ReadPages(saved_tracks, 0, SavedPageLimit)

(* reorder_playlist *)

SortKeys == {"artist", "album", "name", "added_at", "popularity", "other"}

\* get_sort_value(item): a string (by its place in string order) or, for
\* popularity, an integer.
GetSortValue(item, sort_key) ==
  IF item.track = NoTrack THEN [type |-> "str", v |-> 0]
  ELSE CASE sort_key = "artist" ->
              [type |-> "str", v |-> Catalogue[item.track].artist]
         [] sort_key = "album" ->
              [type |-> "str", v |-> Catalogue[item.track].album]
         [] sort_key = "name" ->
              [type |-> "str", v |-> Catalogue[item.track].name]
         [] sort_key = "added_at" -> [type |-> "str", v |-> item.added_at]
         [] sort_key = "popularity" ->
              [type |-> "int", v |-> Catalogue[item.track].popularity]
         [] OTHER -> [type |-> "str", v |-> 0]

\* Python refuses to order a str and an int: sorting keys of both types
\* raises TypeError.
MixedKeys(items, sort_key) ==
  \E i, j \in 1..Len(items) :
    GetSortValue(items[i], sort_key).type # GetSortValue(items[j], sort_key).type

\* The items whose key is one of keys, in sorted order: those with the
\* first key (the smallest, or the largest when reversed) in the order they
\* have in items, then the rest.
RECURSIVE SortBuckets(_, _, _, _)
SortBuckets(items, sort_key, reverse, keys) ==
  IF keys = {} THEN <<>>
  ELSE LET first ==
             CHOOSE k \in keys :
               \A j \in keys : IF reverse THEN j <= k ELSE k <= j
       IN  SelectSeq(items, LAMBDA it : GetSortValue(it, sort_key).v = first)
             \o SortBuckets(items, sort_key, reverse, keys \ {first})

\* items.sort(key=get_sort_value, reverse=reverse): a stable sort, also
\* when reversed: items of equal key keep their order.
SortItems(items, sort_key, reverse) ==
  SortBuckets(items, sort_key, reverse,
              {GetSortValue(items[i], sort_key).v : i \in 1..Len(items)})

\* [item['track']['uri'] for item in items if item.get('track')].
TrackUris(items) ==
  LET kept == SelectSeq(items, LAMBDA it : it.track # NoTrack)
  IN  [k \in 1..Len(kept) |-> kept[k].track]

(* The SpotifyAPI methods, one action per call. *)

\* A SpotifyAPI object for a user who has two playlists, one whose name
\* lacks the suffix (it holds a track and an item without one) and one
\* whose name ends with it (it holds two tracks and, possibly, an item
\* whose track Spotify no longer has), and one liked song.
ClientInit ==
  /\ kind = "SpotifyAPI"
  /\ cfg = SongConfig
  /\ wave = [n |-> 0, sr |-> LoadSr, shape |-> "silent"]
  /\ pc = "client"
  /\ ExtractorUnset
  /\ freq_range_hz = <<0, 0>> /\ plot_saved = FALSE /\ runs = <<>>
  /\ \E plain \in {<<"m", "i", "x">>, <<"s", "b">>},
        suffixed \in {<<"m", "i", "x", "_", "s", "b">>, Sb},
        held \in {<<Item(2, 0), Item(1, 0)>>,
                  <<Item(2, 0), Item(NoTrack, 0), Item(1, 0)>>} :
       playlists =
         <<[name |-> plain, owner |-> UserId,
            items |-> <<Item(1, 0), Item(NoTrack, 0)>>, followed |-> TRUE],
           [name |-> suffixed, owner |-> UserId, items |-> held,
            followed |-> TRUE]>>
  /\ saved_tracks \in {<<Item(2, 0)>>, LikedSongs}
  /\ saved_albums = <<>>
  /\ script = [name |-> "none"]
  /\ now = 1
  /\ requests = <<>> /\ result = "none"
  /\ last_call = [op |-> "none"]
  /\ calls = 0

\* user_playlist_create(self.user_id, name, ...): an empty playlist of
\* that name, owned by the user.
NewPlaylist(name) ==
  [name |-> name, owner |-> UserId, items |-> <<>>, followed |-> TRUE]

\* The guard with the underscore of the suffix forgotten.
IsPlaylistModifiableLoose(pid) == EndsWith(playlists[pid].name, <<"s", "b">>)

\* _is_playlist_modifiable: the name, read from Spotify, ends with '_sb'.
IsPlaylistModifiable(pid) == EndsWith(playlists[pid].name, Sb)

\* The call returns None without having sent anything.
Refused ==
  /\ result' = "None"
  /\ requests' = <<>>
  /\ UNCHANGED <<playlists, now>>

\* The suffix appended whatever the name ends with.
SuffixedNameAlways(name) == name \o Sb

\* if not name.endswith('_sb'): name += '_sb'.
SuffixedName(name) == IF ~EndsWith(name, Sb) THEN name \o Sb ELSE name

CreatePlaylist ==
  /\ pc = "client" /\ calls < MaxCalls /\ Len(playlists) < MaxPlaylists
  /\ \E name \in Names :
       LET new == NewPlaylist(SuffixedName(name))
       IN  /\ last_call' = [op |-> "create_playlist", name |-> name]
           /\ playlists' = Append(playlists, new)
           /\ requests' = <<[op |-> "user_playlist_create", name |-> new.name]>>
           /\ result' = [id |-> Len(playlists) + 1, name |-> new.name]
  /\ calls' = calls + 1
  /\ UNCHANGED <<extractor, saved_albums, script, saved_tracks, now>>

AddSongToPlaylist ==
  /\ pc = "client" /\ calls < MaxCalls
  /\ \E pid \in 1..Len(playlists), arg \in TrackArgs :
       /\ last_call' = [op |-> "add_song_to_playlist", playlist_id |-> pid,
                        track_ids |-> arg]
       /\ Len(playlists[pid].items) + Len(AsList(arg)) <= MaxItems
       /\ IF ~IsPlaylistModifiable(pid) THEN Refused
          ELSE LET track_ids == AsList(arg)
               IN  /\ playlists' = AddChunks(playlists, pid, track_ids, 0, now)
                   /\ requests' =
                        ChunkRequests("playlist_add_items", pid, track_ids, 0)
                   /\ now' = now + Cardinality(ChunkStarts(track_ids, 0))
                   /\ result' = "True"
  /\ calls' = calls + 1
  /\ UNCHANGED <<extractor, saved_albums, script, saved_tracks>>

RemoveSongFromPlaylist ==
  /\ pc = "client" /\ calls < MaxCalls
  /\ \E pid \in 1..Len(playlists), arg \in TrackArgs :
       /\ last_call' = [op |-> "remove_song_from_playlist", playlist_id |-> pid,
                        track_ids |-> arg]
       /\ IF ~IsPlaylistModifiable(pid) THEN Refused
          ELSE LET track_ids == AsList(arg)
               IN  /\ playlists' = RemoveChunks(playlists, pid, track_ids, 0)
                   /\ requests' =
                        ChunkRequests("playlist_remove_all_occurrences_of_items",
                                      pid, track_ids, 0)
                   /\ now' = now + Cardinality(ChunkStarts(track_ids, 0))
                   /\ result' = "True"
  /\ calls' = calls + 1
  /\ UNCHANGED <<extractor, saved_albums, script, saved_tracks>>

\* delete_playlist returns what current_user_unfollow_playlist returns,
\* which is None.
DeletePlaylist ==
  /\ pc = "client" /\ calls < MaxCalls
  /\ \E pid \in 1..Len(playlists) :
       /\ last_call' = [op |-> "delete_playlist", playlist_id |-> pid]
       /\ IF ~IsPlaylistModifiable(pid) THEN Refused
          ELSE /\ playlists' = Unfollow(playlists, pid)
               /\ requests' =
                    <<[op |-> "current_user_unfollow_playlist", playlist_id |-> pid]>>
               /\ now' = now + 1
               /\ result' = "None"
  /\ calls' = calls + 1
  /\ UNCHANGED <<extractor, saved_albums, script, saved_tracks>>

ReorderPlaylist ==
  /\ pc = "client" /\ calls < MaxCalls
  /\ \E pid \in 1..Len(playlists), sort_key \in SortKeys, reverse \in BOOLEAN :
       /\ last_call' = [op |-> "reorder_playlist", playlist_id |-> pid,
                        sort_key |-> sort_key, reverse |-> reverse]
       /\ IF ~IsPlaylistModifiable(pid) THEN Refused
          ELSE LET items == ListSongsOf(pid)
               IN  IF MixedKeys(items, sort_key)
                   THEN /\ result' = "TypeError"
                        /\ requests' = <<>>
                        /\ UNCHANGED <<playlists, now>>
                   ELSE LET track_uris ==
                              TrackUris(SortItems(items, sort_key, reverse))
                            first == Chunk(track_uris, 0)
                        IN  IF track_uris = <<>> THEN Refused
                            ELSE /\ playlists' =
                                      AddChunks(ReplaceItems(playlists, pid, first, now),
                                                pid, track_uris, ChunkSize, now + 1)
                                 /\ requests' =
                                      <<[op |-> "playlist_replace_items",
                                         playlist_id |-> pid, items |-> first]>>
                                        \o ChunkRequests("playlist_add_items", pid,
                                                         track_uris, ChunkSize)
                                 /\ now' = now + 1
                                      + Cardinality(ChunkStarts(track_uris, ChunkSize))
                                 /\ result' = "True"
  /\ calls' = calls + 1
  /\ UNCHANGED <<extractor, saved_albums, script, saved_tracks>>

ListSongs ==
  /\ pc = "client" /\ calls < MaxCalls
  /\ \E pid \in 0..Len(playlists) :
       /\ last_call' = [op |-> "list_songs", playlist_id |-> pid]
       /\ result' = ListSongsOf(pid)
       /\ requests' =
            IF pid # 0 THEN PagesRead(playlists[pid].items, 0, PlaylistPageLimit)
            ELSE PagesRead(saved_tracks, 0, SavedPageLimit)
  /\ calls' = calls + 1
  /\ UNCHANGED <<extractor, saved_albums, script, playlists, saved_tracks, now>>

ClientNext ==
  \/ CreatePlaylist
  \/ AddSongToPlaylist
  \/ RemoveSongFromPlaylist
  \/ DeletePlaylist
  \/ ReorderPlaylist
  \/ ListSongs

ClientSpec == ClientInit /\ [][ClientNext]_vars

GuardedOps ==
  {"add_song_to_playlist", "remove_song_from_playlist", "delete_playlist",
   "reorder_playlist"}

\* The last call was one of the four guarded operations on a playlist
\* whose name does not end with '_sb'.
GuardedCallOnPlain ==
  /\ last_call.op \in GuardedOps
  /\ ~EndsWith(playlists[last_call.playlist_id].name, Sb)

\* No step changes a playlist whose name does not end with '_sb'.
PlainPlaylistsKept ==
  \A pid \in 1..Len(playlists) :
    ~EndsWith(playlists[pid].name, Sb) =>
      Len(playlists') >= pid /\ playlists'[pid] = playlists[pid]

\* C20: add_song_to_playlist, remove_song_from_playlist, delete_playlist
\* and reorder_playlist called on a playlist whose name does not end with
\* '_sb' return None and send no modifying request; in any sequence of
\* calls the contents and the existence of such a playlist never change.
C20_PlainPlaylistsUntouched ==
  /\ [](GuardedCallOnPlain => result = "None" /\ requests = <<>>)
  /\ [](\A k \in 1..Len(requests) :
          "playlist_id" \in DOMAIN requests[k] =>
            EndsWith(playlists[requests[k].playlist_id].name, Sb))
  /\ [][PlainPlaylistsKept]_vars

\* After a call that changed a suffixed playlist, reorder_playlist was
\* called on the playlist without the suffix, which holds a track.
C20_Witness ==
  /\ GuardedCallOnPlain
  /\ last_call.op = "reorder_playlist"
  /\ playlists[last_call.playlist_id].items # <<>>
  /\ calls >= 2
  /\ \E pid \in 1..Len(playlists) :
       Len(playlists[pid].items) > ChunkSize

(* ------------------- two analyses, stages interleaved ------------------ *)

RunIds == {1, 2}

\* What __init__ puts on the object before _extract_features: the signal
\* (self.y; self.waveform and self.y_np), self.sr and, for SongTorchaudio,
\* n_fft, hop_length and n_mels.
InputNames == {"y", "sr", "cfg"}

\* The locals of _extract_features that one stage leaves for a later one.
LocalNames == {"mfccs", "chroma", "stacked_features", "R", "labels"}

\* The attributes and locals each stage reads.
StageReads(k, stage) ==
  LET cfg_read == IF k = "SongTorchaudio" THEN {"cfg"} ELSE {}
  IN  CASE stage = "duration" -> {"y", "sr"}
        [] stage = "rms" -> {"y"} \cup cfg_read
        [] stage \in {"beat", "onset", "melspec", "mfcc", "chroma"} ->
             {"y", "sr"} \cup cfg_read
        [] stage = "hpss" -> {"y"}
        [] stage \in {"bass", "mid", "treble"} ->
             {"melspec"} \cup (IF k = "SongTorchaudio" THEN {"sr", "cfg"} ELSE {})
        [] stage = "stack" -> {"mfccs", "chroma"}
        [] stage = "recurrence" -> {"stacked_features"}
        [] stage = "cluster" -> {"R"}
        [] stage = "boundaries" -> {"labels", "sr"} \cup cfg_read
        [] stage = "vector" ->
             {"tempo", "rms_energy", "bass_energy", "mid_energy", "treble_energy"}

\* The attributes and locals each stage assigns.
StageWrites(stage) ==
  CASE stage = "duration" -> {"duration"}
    [] stage = "rms" -> {"rms_energy"}
    [] stage = "beat" -> {"tempo", "beats"}
    [] stage = "onset" -> {"onsets"}
    [] stage = "hpss" -> {"y_harmonic", "y_percussive"}
    [] stage = "melspec" -> {"melspec"}
    [] stage = "bass" -> {"bass_energy"}
    [] stage = "mid" -> {"mid_energy"}
    [] stage = "treble" -> {"treble_energy"}
    [] stage = "mfcc" -> {"mfccs"}
    [] stage = "chroma" -> {"chroma"}
    [] stage = "stack" -> {"stacked_features"}
    [] stage = "recurrence" -> {"R"}
    [] stage = "cluster" -> {"labels"}
    [] stage = "boundaries" -> {"segment_boundaries", "segment_labels"}
    [] stage = "vector" -> {"feature_vector"}

\* The stage after stage.
StageAfter(stage) ==
  StageOrder[1 + CHOOSE i \in 1..(Len(StageOrder) - 1) : StageOrder[i] = stage]

\* Every run keeping its attributes on one object shared by all, as class
\* attributes are.
SelfShared(r) == 1

\* self in run r: the object that run's __init__ is building.
Self(r) == r

\* Song(path) and SongTorchaudio(path, ...), each on its own track, at the
\* call of _extract_features.
PairInit ==
  /\ kind = "Song"
  /\ cfg = SongConfig
  /\ wave = [n |-> 0, sr |-> LoadSr, shape |-> "silent"]
  /\ pc = "pair"
  /\ ExtractorUnset
  /\ freq_range_hz = <<0, 0>> /\ plot_saved = FALSE
  /\ ClientUnset
  /\ \E k \in [RunIds -> {"Song", "SongTorchaudio"}] :
       runs = [r \in RunIds |->
                 [kind |-> k[r], pc |-> "duration",
                  self |-> [a \in InputNames \cup FeatureNames |->
                              IF a \in InputNames THEN {r} ELSE {}],
                  frame |-> [a \in LocalNames |-> {}]]]

\* One run executes its next stage: what the stage assigns comes from what
\* it reads, attributes through self and locals from the run's own call.
RunStage ==
  /\ pc = "pair"
  /\ \E r \in RunIds :
       LET stage == runs[r].pc
           o == Self(r)
           read == UNION {IF a \in LocalNames THEN runs[r].frame[a]
                          ELSE runs[o].self[a] :
                          a \in StageReads(runs[r].kind, stage)}
       IN  /\ stage \notin {"done", "failed"}
           /\ runs' =
                [q \in RunIds |->
                   [kind |-> runs[q].kind,
                    pc |-> IF q = r THEN StageAfter(stage) ELSE runs[q].pc,
                    self |-> IF q = o
                             THEN [a \in DOMAIN runs[q].self |->
                                     IF a \in StageWrites(stage) THEN read
                                     ELSE runs[q].self[a]]
                             ELSE runs[q].self,
                    frame |-> IF q = r
                              THEN [a \in LocalNames |->
                                      IF a \in StageWrites(stage) THEN read
                                      ELSE runs[q].frame[a]]
                              ELSE runs[q].frame]]
  /\ UNCHANGED <<kind, cfg, wave, pc, err, raised_in, assigned, attrs, locals,
                 reported_segments, ret, freq_range_hz, plot_saved, client>>

\* A library call of one run raises: that constructor ends there.
RaiseInStage ==
  /\ pc = "pair"
  /\ \E r \in RunIds :
       /\ runs[r].pc \notin {"done", "failed"}
       /\ runs' = [runs EXCEPT ![r].pc = "failed"]
  /\ UNCHANGED <<kind, cfg, wave, pc, err, raised_in, assigned, attrs, locals,
                 reported_segments, ret, freq_range_hz, plot_saved, client>>

PairNext == RunStage \/ RaiseInStage

PairSpec == PairInit /\ [][PairNext]_vars

\* The result of run r alone: every feature computed from track r only.
AloneResult(r) == [a \in FeatureNames |-> {r}]

\* Every value of run r comes from track r only.
OwnDataOnly(r) ==
  /\ \A a \in DOMAIN runs[r].self : runs[r].self[a] \subseteq {r}
  /\ \A a \in LocalNames : runs[r].frame[a] \subseteq {r}

\* A step of one run leaves everything of the other run as it was.
OtherRunKept ==
  \A r \in RunIds :
    runs'[r].pc # runs[r].pc =>
      \A q \in RunIds \ {r} : runs'[q] = runs[q]

\* C18: two analysis runs on different tracks, their stages interleaved in
\* any order, share no mutable state: no stage of one run reads or writes a
\* value of the other, and the result of each run is the one it has when
\* run alone.
C18_RunsShareNothing ==
  /\ [](\A r \in RunIds : OwnDataOnly(r))
  /\ [](\A r \in RunIds :
          runs[r].pc = "done" =>
            [a \in FeatureNames |-> runs[r].self[a]] = AloneResult(r))
  /\ [][OtherRunKept]_vars

\* Both runs done, one of each class.
C18_Witness ==
  /\ pc = "pair"
  /\ runs[1].pc = "done" /\ runs[2].pc = "done"
  /\ runs[1].kind # runs[2].kind

(* ------------------------ the client, call by call --------------------- *)

\* C21: create_playlist always creates a playlist whose name ends with
\* '_sb': a requested name without the suffix gets '_sb' appended exactly
\* once, a name that already ends with '_sb' is used unchanged, and
\* applying the suffix rule twice equals applying it once.
C21_CreatedNameSuffixedOnce ==
  /\ last_call.op = "create_playlist" =>
       /\ EndsWith(result.name, Sb)
       /\ playlists[result.id].name = result.name
       /\ requests = <<[op |-> "user_playlist_create", name |-> result.name]>>
       /\ IF EndsWith(last_call.name, Sb)
          THEN result.name = last_call.name
          ELSE /\ Len(result.name) = Len(last_call.name) + Len(Sb)
               /\ SubSeq(result.name, 1, Len(last_call.name)) = last_call.name
  /\ \A name \in Names :
       SuffixedName(SuffixedName(name)) = SuffixedName(name)

\* A playlist was asked for under the name 'sb', which ends with the
\* letters of the suffix but not with the suffix, and was created as
\* 'sb_sb'.
C21_Witness ==
  /\ last_call.op = "create_playlist"
  /\ last_call.name = <<"s", "b">>
  /\ playlists[result.id].name = <<"s", "b", "_", "s", "b">>

\* The tracks list_songs(pid) would return now.
ListedTracks(pid) ==
  LET items == ListSongsOf(pid)
  IN  {items[k].track : k \in 1..Len(items)}

\* The last call was op, on a playlist the guard lets through.
Returned(op) == last_call.op = op /\ result = "True"

\* The step is remove_song_from_playlist(p, [s]) right after
\* add_song_to_playlist(p, [s]) on a playlist whose name ends with '_sb'.
RemoveFollowsAdd ==
  /\ Returned("add_song_to_playlist")
  /\ last_call'.op = "remove_song_from_playlist"
  /\ last_call'.playlist_id = last_call.playlist_id
  /\ last_call'.track_ids = last_call.track_ids

\* C22: for a playlist whose name ends with '_sb' and any track s, after
\* add_song_to_playlist(p, [s]) returns list_songs(p) contains s, and
\* after a following remove_song_from_playlist(p, [s]) returns
\* list_songs(p) contains no occurrence of s.
C22_AddedListedRemovedGone ==
  /\ [](Returned("add_song_to_playlist") =>
          Range(AsList(last_call.track_ids))
            \subseteq ListedTracks(last_call.playlist_id))
  /\ [](Returned("remove_song_from_playlist") =>
          Range(AsList(last_call.track_ids))
            \cap ListedTracks(last_call.playlist_id) = {})
  /\ [][RemoveFollowsAdd =>
          Range(AsList(last_call.track_ids))
            \cap ListedTracks(last_call.playlist_id)' = {}]_vars

\* Track 2 was removed, after an earlier call, from the suffixed playlist,
\* which held it at the start and still holds track 1.
C22_Witness ==
  /\ Returned("remove_song_from_playlist")
  /\ last_call.track_ids = [is_list |-> TRUE, value |-> <<2>>]
  /\ calls = 2 /\ now = 3
  /\ playlists[last_call.playlist_id].items = <<Item(1, 0)>>
  /\ ListedTracks(last_call.playlist_id) = {1}

(* ------------------------- a run that raises --------------------------- *)

\* song = Song(path) has returned: the caller holds the object and may
\* read its attributes, summarize it and plot it.
ObjectAvailable == pc = "done"

\* C23: if any stage of one analysis run raises, the exception leaves the
\* constructor and no analysis result (no Song object, no feature vector,
\* no partially populated feature set) is available for that track; no
\* stage catches an error and continues with substitute data.
C23_RaiseLeavesNoResult ==
  /\ [](raised_in # "none" <=> pc = "failed")
  /\ [](err # "none" <=> pc = "failed")
  /\ [](pc = "failed" =>
          /\ ~ObjectAvailable
          /\ feature_vector = <<>> /\ "feature_vector" \notin assigned
          /\ reported_segments = -1 /\ ~plot_saved)
  /\ [](ObjectAvailable => assigned = FeatureNames)
  /\ [][pc # "failed" /\ (pc' = "failed" => UNCHANGED attrs)]_vars

\* The clustering stage raised after earlier stages had assigned
\* attributes to the object under construction.
C23_Witness ==
  /\ pc = "failed" /\ raised_in = "cluster" /\ err = "ValueError"
  /\ {"duration", "melspec", "treble_energy"} \subseteq assigned

\* The ids of the requests, one after the other in request order.
RECURSIVE SentIds(_)
SentIds(reqs) ==
  IF reqs = <<>> THEN <<>> ELSE Head(reqs).items \o SentIds(Tail(reqs))

\* The last call was add_song_to_playlist on a playlist whose name ends
\* with '_sb'.
AddedToModifiable ==
  /\ last_call.op = "add_song_to_playlist"
  /\ EndsWith(playlists[last_call.playlist_id].name, Sb)

\* C24: add_song_to_playlist on a modifiable playlist with a list of n
\* track ids issues ceil(n/100) add requests, each of at most 100 ids,
\* whose concatenation in request order is exactly the input list; a
\* single non-list id is sent as a one-element list; the call returns
\* True.
C24_AddSendsEveryIdOnceInOrder ==
  AddedToModifiable =>
    LET arg == last_call.track_ids
        n == IF arg.is_list THEN Len(arg.value) ELSE 1
    IN  /\ result = "True"
        /\ Len(requests) = (n + ChunkSize - 1) \div ChunkSize
        /\ \A k \in 1..Len(requests) :
             /\ requests[k].op = "playlist_add_items"
             /\ requests[k].playlist_id = last_call.playlist_id
             /\ Len(requests[k].items) \in 1..ChunkSize
        /\ SentIds(requests) = IF arg.is_list THEN arg.value ELSE <<arg.value>>

\* 101 ids were added to a suffixed playlist in two requests, the second
\* carrying the last id alone.
C24_Witness ==
  /\ AddedToModifiable
  /\ last_call.track_ids.is_list
  /\ last_call.track_ids.value = LongIds
  /\ Len(requests) = 2
  /\ requests[2].items = <<LongIds[ChunkSize + 1]>>

\* How many items of items hold track t.
Count(items, t) == Cardinality({i \in 1..Len(items) : items[i].track = t})

\* The sort keys the items of items that hold track t have.
OldKeys(items, t, sort_key) ==
  {GetSortValue(items[i], sort_key) :
     i \in {k \in 1..Len(items) : items[k].track = t}}

\* tracks is in the order of the keys the tracks had in items: no track
\* stands before one of a smaller key (of a larger key when reversed).
\* Python orders integers with integers and strings with strings.
InKeyOrder(tracks, items, sort_key, reverse) ==
  \A i \in 1..(Len(tracks) - 1) :
    \E a \in OldKeys(items, tracks[i], sort_key),
       b \in OldKeys(items, tracks[i + 1], sort_key) :
      /\ a.type = b.type
      /\ IF reverse THEN a.v >= b.v ELSE a.v <= b.v

\* The step is reorder_playlist on playlist pid, whose name ends with
\* '_sb'.
ReorderOf(pid) ==
  /\ calls' = calls + 1
  /\ last_call'.op = "reorder_playlist"
  /\ last_call'.playlist_id = pid
  /\ EndsWith(playlists[pid].name, Sb)

\* C25: reorder_playlist on a modifiable playlist leaves the playlist
\* holding exactly the same multiset of tracks it held before, ordered by
\* the chosen sort key (reversed when reverse is true), also when the
\* playlist has more than 100 tracks.
C25_ReorderKeepsTracksSorted ==
  [][\A pid \in 1..Len(playlists) :
       ReorderOf(pid) =>
         LET old == playlists[pid].items
             new == playlists'[pid].items
         IN  /\ \A t \in TrackIds : Count(new, t) = Count(old, t)
             /\ InKeyOrder(TrackUris(new), old, last_call'.sort_key,
                           last_call'.reverse)]_vars

\* The collection list_songs was last asked for, and its page size.
ListedCollection ==
  IF last_call.playlist_id # 0 THEN playlists[last_call.playlist_id].items
  ELSE saved_tracks

ListedLimit ==
  IF last_call.playlist_id # 0 THEN PlaylistPageLimit ELSE SavedPageLimit

\* C26: list_songs terminates for every finite chain of result pages and
\* returns the concatenation of the items of all pages in page order: no
\* page is skipped, none is read twice, and the loop stops exactly when a
\* page has no 'next' link.
C26_AllPagesReadOnceInOrder ==
  last_call.op = "list_songs" =>
    LET n == Len(ListedCollection)
        pages == Max(1, (n + ListedLimit - 1) \div ListedLimit)
    IN  /\ result = ListedCollection
        /\ Len(requests) = pages
        /\ \A k \in 1..pages : requests[k].offset = (k - 1) * ListedLimit

\* After 101 tracks were added to a playlist, its 103 or 104 items were
\* listed from two pages.
C26_Witness ==
  /\ last_call.op = "list_songs"
  /\ last_call.playlist_id # 0
  /\ Len(requests) = 2
  /\ Len(result) > PlaylistPageLimit + 2

(* ----------------------- playlist_enhancer.main ------------------------ *)

MaxUserPlaylists == 2

\* The page size spotipy asks for when the caller names none:
\* current_user_playlists(limit=50).
UserPlaylistsLimit == 50

\* top_n of analyze_playlist_genres.
TopN == 3

\* current_user_playlists()['items']: the first page of the user's
\* playlists, each with its id, name and owner.
CurrentUserPlaylists ==
  [k \in 1..Min(UserPlaylistsLimit, Len(playlists)) |->
     [id |-> k, name |-> playlists[k].name, owner |-> playlists[k].owner]]

\* sp_public.artists(...): the genres Spotify gives for each artist, the
\* artist named by the place the Catalogue gives it.
ArtistGenres ==
  [a \in {1, 2} |-> IF a = 1 THEN {"rock"} ELSE {"rock", "house"}]

\* The artist of a track: track['artists'][0]['id'].
PrimaryArtist(t) == Catalogue[t].artist

\* analyze_playlist_genres(client, playlist_tracks, top_n=3): the genres
\* of the primary artists counted over the tracks, most_common(3).  The
\* catalogue has fewer than three genres, so every genre counted is among
\* the three most common.
TopGenres(playlist_tracks) ==
  UNION {ArtistGenres[PrimaryArtist(playlist_tracks[k].track)] :
           k \in {j \in 1..Len(playlist_tracks) :
                    playlist_tracks[j].track # NoTrack}}

\* Step 6 without the test on original_song_ids.
SongsToAddUnfiltered(liked_songs, original_song_ids, top_genres) ==
  TrackUris(SelectSeq(liked_songs, LAMBDA item :
    /\ item.track # NoTrack
    /\ ArtistGenres[PrimaryArtist(item.track)] \cap top_genres # {}))

\* Step 6: the liked songs that have a track, are not in the original
\* playlist and whose primary artist has one of the top genres.
SongsToAdd(liked_songs, original_song_ids, top_genres) ==
  TrackUris(SelectSeq(liked_songs, LAMBDA item :
    /\ item.track # NoTrack
    /\ item.track \notin original_song_ids
    /\ ArtistGenres[PrimaryArtist(item.track)] \cap top_genres # {}))

\* add_song_to_playlist(pid, ids), its result not looked at: what it
\* leaves of the playlists pl, and the requests it sends.
AddCall(pl, pid, ids, at) ==
  IF ~EndsWith(pl[pid].name, Sb) THEN pl ELSE AddChunks(pl, pid, ids, 0, at)

AddCallRequests(pl, pid, ids) ==
  IF ~EndsWith(pl[pid].name, Sb) THEN <<>>
  ELSE ChunkRequests("playlist_add_items", pid, ids, 0)

\* The requests reqs, each marked with the pass of the loop and the step
\* of its body that sent it.
Marked(reqs, i, step) ==
  [k \in 1..Len(reqs) |->
     [op |-> reqs[k].op, playlist_id |-> reqs[k].playlist_id,
      items |-> reqs[k].items, iter |-> i, step |-> step]]

\* The playlists a user may have when the script starts.
UserPlaylists ==
  [name : {<<"m", "i", "x">>, <<"m", "i", "x", "_", "s", "b">>},
   owner : {UserId, "other"},
   items : {<<>>, <<Item(1, 0), Item(NoTrack, 0)>>, <<Item(2, 0), Item(1, 0)>>},
   followed : {TRUE}]

\* main() with the client built: a user with one or two playlists and
\* none, one or three liked songs.
EnhancerInit ==
  /\ kind = "SpotifyAPI"
  /\ cfg = SongConfig
  /\ wave = [n |-> 0, sr |-> LoadSr, shape |-> "silent"]
  /\ pc = "enhancer"
  /\ ExtractorUnset
  /\ freq_range_hz = <<0, 0>> /\ plot_saved = FALSE /\ runs = <<>>
  /\ \E n \in 1..MaxUserPlaylists : playlists \in [1..n -> UserPlaylists]
  /\ saved_tracks \in
       {<<>>, <<Item(2, 0)>>, <<Item(1, 0), Item(2, 0), Item(NoTrack, 0)>>}
  /\ saved_albums = <<>>
  /\ now = 1
  /\ requests = <<>> /\ result = "none"
  /\ last_call = [op |-> "none"]
  /\ calls = 0
  /\ script = [name |-> "playlist_enhancer", at |-> "start"]

\* Steps 1 and 2: the liked songs and the user's playlists are fetched.
EnhancerFetch ==
  /\ pc = "enhancer" /\ script.at = "start"
  /\ script' = [name |-> "playlist_enhancer", at |-> "loop",
                liked_songs |-> ListSongsOf(0),
                playlists |-> CurrentUserPlaylists, i |-> 1]
  /\ UNCHANGED <<extractor, playlists, saved_tracks, saved_albums, now,
                 requests, result, last_call, calls>>

\* A pass of the loop over a playlist that is already enhanced or owned
\* by somebody else: continue.
SkipPlaylist ==
  /\ pc = "enhancer" /\ script.at = "loop" /\ script.i <= Len(script.playlists)
  /\ LET playlist == script.playlists[script.i]
     IN  EndsWith(playlist.name, Sb) \/ playlist.owner # UserId
  /\ script' = [script EXCEPT !.i = @ + 1]
  /\ UNCHANGED <<extractor, playlists, saved_tracks, saved_albums, now,
                 requests, result, last_call, calls>>

\* A pass of the loop over any other playlist: steps 3 to 7.
EnhancePlaylist ==
  /\ pc = "enhancer" /\ script.at = "loop" /\ script.i <= Len(script.playlists)
  /\ LET i == script.i
         playlist == script.playlists[i]
         new_playlist_name == playlist.name \o Sb
         new_id == Len(playlists) + 1
         created ==
           Append(playlists, NewPlaylist(SuffixedName(new_playlist_name)))
         original_tracks ==
           ReadPages(created[playlist.id].items, 0, PlaylistPageLimit)
         original_track_uris == TrackUris(original_tracks)
         copy_requests ==
           IF original_track_uris # <<>>
           THEN AddCallRequests(created, new_id, original_track_uris)
           ELSE <<>>
         copied ==
           IF original_track_uris # <<>>
           THEN AddCall(created, new_id, original_track_uris, now + 1)
           ELSE created
         songs_to_add_uris ==
           SongsToAdd(script.liked_songs, Range(original_track_uris),
                      TopGenres(original_tracks))
         liked_requests ==
           IF songs_to_add_uris # <<>>
           THEN AddCallRequests(copied, new_id, songs_to_add_uris)
           ELSE <<>>
     IN  /\ ~(EndsWith(playlist.name, Sb) \/ playlist.owner # UserId)
         /\ playlists' =
              IF songs_to_add_uris # <<>>
              THEN AddCall(copied, new_id, songs_to_add_uris,
                           now + 1 + Len(copy_requests))
              ELSE copied
         /\ requests' =
              requests
                \o <<[op |-> "user_playlist_create", name |-> created[new_id].name,
                      id |-> new_id, iter |-> i, step |-> "create"]>>
                \o Marked(copy_requests, i, "copy")
                \o Marked(liked_requests, i, "liked")
         /\ now' = now + 1 + Len(copy_requests) + Len(liked_requests)
  /\ script' = [script EXCEPT !.i = @ + 1]
  /\ UNCHANGED <<extractor, saved_tracks, saved_albums, result, last_call, calls>>

EnhancerNext ==
  \/ EnhancerFetch
  \/ SkipPlaylist
  \/ EnhancePlaylist

EnhancerSpec == EnhancerInit /\ [][EnhancerNext]_vars

\* The test of the loop: the playlist is the user's own and not yet
\* enhanced.
Eligible(playlist) == playlist.owner = UserId /\ ~EndsWith(playlist.name, Sb)

\* The requests of the run sent by pass i of the loop, of the steps named.
SentBy(i, steps) ==
  {k \in 1..Len(requests) : requests[k].iter = i /\ requests[k].step \in steps}

\* The tracks playlist pid holds.
HeldTracks(pid) ==
  {playlists[pid].items[k].track : k \in 1..Len(playlists[pid].items)}

\* What pass i of the loop has sent is what the claim allows.
PassAsClaimed(i) ==
  LET original == script.playlists[i]
      creates == SentBy(i, {"create"})
      adds == SentBy(i, {"copy", "liked"})
  IN  /\ creates \cup adds # {} => Eligible(original) /\ i < script.i
      /\ (Eligible(original) /\ i < script.i) =>
           /\ Cardinality(creates) = 1
           /\ \A c \in creates :
                /\ requests[c].name = original.name \o Sb
                /\ requests[c].id \notin
                     {script.playlists[j].id : j \in 1..Len(script.playlists)}
                /\ playlists[requests[c].id].name = requests[c].name
                /\ \A a \in adds : requests[a].playlist_id = requests[c].id
           /\ \A a \in SentBy(i, {"liked"}) :
                Range(requests[a].items) \cap HeldTracks(original.id) = {}

\* C27: in one run of the playlist enhancer a playlist is processed only
\* if it is owned by the current user and its name does not end with
\* '_sb'; for each processed playlist exactly one new playlist named
\* '<name>_sb' is created, every track addition targets that new playlist,
\* the original playlist is never modified, and no liked song whose id is
\* already in the original playlist is added a second time.
C27_EnhancerCopiesAndKeepsOriginals ==
  /\ [](script.at = "loop" =>
          /\ \A k \in 1..Len(requests) :
               requests[k].iter \in 1..Len(script.playlists)
          /\ \A i \in 1..Len(script.playlists) : PassAsClaimed(i))
  /\ [][\A pid \in 1..Len(playlists) : playlists'[pid] = playlists[pid]]_vars

\* The run is over two playlists: one was skipped; the other, which holds
\* track 1, was copied and got the liked track 2, but not the liked track
\* 1 a second time.
C27_Witness ==
  /\ script.name = "playlist_enhancer" /\ script.at = "loop"
  /\ Len(script.playlists) = 2 /\ script.i = 3
  /\ \E i \in 1..2 : ~Eligible(script.playlists[i])
  /\ \E c \in SentBy(1, {"copy"}) \cup SentBy(2, {"copy"}) :
       requests[c].items = <<1>>
  /\ \E a \in SentBy(1, {"liked"}) \cup SentBy(2, {"liked"}) :
       requests[a].items = <<2>>
  /\ Item(1, 0) \in Range(script.liked_songs)

(* ---------------- playlist_generator.get_all_user_tracks --------------- *)

\* The page size spotipy asks for when the caller names none:
\* current_user_saved_albums(limit=20).
SavedAlbumsLimit == 20

\* A track object whose 'id' is None, as a local file has.
LocalTrack == 3

\* track['id'], 0 standing for None.
IdOf(t) == IF t = LocalTrack THEN 0 ELSE t

\* The loop of add_tracks, and of lines 46-49, over the tracks one source
\* gave: a track is appended when it is there, has an id and the id is
\* not yet in unique_track_ids.
RECURSIVE AddTracks(_, _)
AddTracks(found, tracks) ==
  IF tracks = <<>> THEN found
  ELSE LET track == Head(tracks)
           new == /\ track # NoTrack
                  /\ IdOf(track) # 0
                  /\ IdOf(track) \notin found.unique_track_ids
       IN  AddTracks(IF new
                     THEN [unique_track_ids |->
                             found.unique_track_ids \cup {IdOf(track)},
                           all_tracks |-> Append(found.all_tracks, track)]
                     ELSE found,
                     Tail(tracks))

\* item.get('track') of every item.
TracksOf(items) == [k \in 1..Len(items) |-> items[k].track]

\* n playlists of the user: the last holds last_items, the others track 1.
PlaylistsOfUser(n, last_items) ==
  [k \in 1..n |->
     [name |-> <<"m", "i", "x">>, owner |-> UserId,
      items |-> IF k = n THEN last_items ELSE <<Item(1, 0)>>,
      followed |-> TRUE]]

\* n saved albums: the last holds last_tracks, the others track 1.
AlbumsOfUser(n, last_tracks) ==
  [k \in 1..n |-> IF k = n THEN last_tracks ELSE <<1>>]

\* get_all_user_tracks(client) at its first statement, for a user with
\* one, two or 51 playlists, up to two liked songs and none, one or 21
\* saved albums.
GeneratorInit ==
  /\ kind = "SpotifyAPI"
  /\ cfg = SongConfig
  /\ wave = [n |-> 0, sr |-> LoadSr, shape |-> "silent"]
  /\ pc = "generator"
  /\ ExtractorUnset
  /\ freq_range_hz = <<0, 0>> /\ plot_saved = FALSE /\ runs = <<>>
  /\ \E n \in {1, 2, UserPlaylistsLimit + 1},
        last_items \in {<<>>, <<Item(2, 0), Item(1, 0), Item(NoTrack, 0)>>,
                        <<Item(LocalTrack, 0), Item(2, 0)>>} :
       playlists = PlaylistsOfUser(n, last_items)
  /\ saved_tracks \in {<<>>, <<Item(1, 0)>>, <<Item(2, 0), Item(NoTrack, 0)>>}
  /\ saved_albums \in
       {<<>>, AlbumsOfUser(1, <<NoTrack, 2, 1>>),
        AlbumsOfUser(SavedAlbumsLimit + 1, <<2>>)}
  /\ now = 1
  /\ requests = <<>> /\ result = "none"
  /\ last_call = [op |-> "none"]
  /\ calls = 0
  /\ script = [name |-> "playlist_generator", at |-> "liked",
               found |-> [unique_track_ids |-> {}, all_tracks |-> <<>>]]

\* 1. Liked Songs, and the fetch of the user's playlists.
ScanLikedSongs ==
  /\ pc = "generator" /\ script.at = "liked"
  /\ script' =
       [name |-> "playlist_generator", at |-> "playlists",
        found |-> AddTracks(script.found, TracksOf(ListSongsOf(0))),
        playlists |-> CurrentUserPlaylists, i |-> 1]
  /\ UNCHANGED <<extractor, playlists, saved_tracks, saved_albums, now,
                 requests, result, last_call, calls>>

\* 2. One pass of the loop over playlists['items'].
ScanPlaylist ==
  /\ pc = "generator" /\ script.at = "playlists"
  /\ script.i <= Len(script.playlists)
  /\ script' =
       [script EXCEPT
          !.found = AddTracks(@, TracksOf(ListSongsOf(script.playlists[script.i].id))),
          !.i = @ + 1]
  /\ UNCHANGED <<extractor, playlists, saved_tracks, saved_albums, now,
                 requests, result, last_call, calls>>

\* 3. The loop over the playlists is over: the first page of the saved
\* albums is fetched.
FetchSavedAlbums ==
  /\ pc = "generator" /\ script.at = "playlists"
  /\ script.i > Len(script.playlists)
  /\ script' =
       [name |-> "playlist_generator", at |-> "albums",
        found |-> script.found, offset |-> 0]
  /\ UNCHANGED <<extractor, playlists, saved_tracks, saved_albums, now,
                 requests, result, last_call, calls>>

\* The tracks of each album of a page, looked up by their ids:
\* sp_public.tracks([t['id'] for t in album_tracks if t])['tracks'].
RECURSIVE ScanAlbums(_, _)
ScanAlbums(found, albums) ==
  IF albums = <<>> THEN found
  ELSE ScanAlbums(AddTracks(found,
                            SelectSeq(Head(albums), LAMBDA t : t # NoTrack)),
                  Tail(albums))

\* One pass of the while loop over the pages of saved albums; it ends
\* with the page that has no 'next' link.
ScanAlbumsPage ==
  /\ pc = "generator" /\ script.at = "albums"
  /\ LET page == SubSeq(saved_albums, script.offset + 1,
                        Min(script.offset + SavedAlbumsLimit, Len(saved_albums)))
         next == script.offset + SavedAlbumsLimit < Len(saved_albums)
     IN  script' =
           [script EXCEPT
              !.found = ScanAlbums(@, page),
              !.offset = IF next THEN @ + SavedAlbumsLimit ELSE @,
              !.at = IF next THEN "albums" ELSE "return"]
  /\ UNCHANGED <<extractor, playlists, saved_tracks, saved_albums, now,
                 requests, result, last_call, calls>>

\* return all_tracks.
ReturnAllTracks ==
  /\ pc = "generator" /\ script.at = "return"
  /\ result' = script.found.all_tracks
  /\ script' = [script EXCEPT !.at = "returned"]
  /\ UNCHANGED <<extractor, playlists, saved_tracks, saved_albums, now,
                 requests, last_call, calls>>

GeneratorNext ==
  \/ ScanLikedSongs
  \/ ScanPlaylist
  \/ FetchSavedAlbums
  \/ ScanAlbumsPage
  \/ ReturnAllTracks

GeneratorSpec == GeneratorInit /\ [][GeneratorNext]_vars

\* The sequences of seqs, one after the other.
RECURSIVE Flatten(_)
Flatten(seqs) ==
  IF seqs = <<>> THEN <<>> ELSE Head(seqs) \o Flatten(Tail(seqs))

\* Every track the user's library holds: the liked songs, then the
\* playlists, then the saved albums.
LibraryTracks ==
  TracksOf(saved_tracks)
    \o Flatten([k \in 1..Len(playlists) |-> TracksOf(playlists[k].items)])
    \o Flatten(saved_albums)

\* Where id first occurs in the library.
FirstPlace(id) ==
  CHOOSE k \in 1..Len(LibraryTracks) :
    /\ IdOf(LibraryTracks[k]) = id
    /\ \A j \in 1..(k - 1) : IdOf(LibraryTracks[j]) # id

\* C28: get_all_user_tracks returns a list in which no two tracks have the
\* same id, and which contains every track with a non-empty id that
\* appears in the liked songs, in any of the user's playlists, or in any
\* page of the user's saved albums; the first occurrence of an id (liked
\* songs, then playlists, then albums) is the one kept.
C28_AllTracksOnceEach ==
  (pc = "generator" /\ script.at = "returned") =>
    /\ \A i, j \in 1..Len(result) :
         IdOf(result[i]) = IdOf(result[j]) => i = j
    /\ {IdOf(LibraryTracks[k]) : k \in 1..Len(LibraryTracks)} \ {0}
         \subseteq {IdOf(result[k]) : k \in 1..Len(result)}
    /\ \A i, j \in 1..Len(result) :
         i < j => FirstPlace(IdOf(result[i])) < FirstPlace(IdOf(result[j]))

====
